---------------------------- MODULE Spec2Model ----------------------------
(***************************************************************************)
(* Model of the porto container lifecycle engine: the container registry   *)
(* and its hierarchical lock (src/src/container.cpp), the container state  *)
(* machine, the event dispatcher, the waiter registry and the client       *)
(* session (src/src/client.cpp).                                           *)
(*                                                                         *)
(* Container records live in a heap `ct' indexed by object slots; slot 0   *)
(* is RootContainer.  The registry `Containers' maps names to slots.       *)
(* Names are sequences of characters so that ParentName is computed the    *)
(* way the code computes it (rfind of '/').                                *)
(***************************************************************************)
EXTENDS Integers, Sequences, FiniteSets, TLC

VARIABLES
    ct,               \* heap of TContainer records, indexed by object slot
    Containers,       \* std::map name -> slot (the registry)
    ContainerIdMap,   \* TIdMap: the set of ids handed out
    ContainersMutex,  \* owner of ContainersMutex, or NoThread
    pc,               \* position of every thread
    LockedContainer,  \* TClient::LockedContainer of every client session
    WeakContainers,   \* TClient::WeakContainers of every client session
    local,            \* locals of a thread inside a multi-step handler
    EventQueue,       \* events queued for the event workers
    holds,            \* history: the locks granted and not yet released
    lastEdges,        \* history: state changes made by the last operation
    lastOp,           \* history: the last operation and its result
    crashed,          \* the daemon aborted (assertion, uncaught exception)
    waiter,           \* the TContainerWaiter of a Wait request
    client,           \* the identity of the session of a client (TClient)
    taskEnv,          \* the processes and sockets of one TTaskEnv::Start
    exitInfo          \* ExitStatus and OomKilled of every container

vars == <<ct, Containers, ContainerIdMap, ContainersMutex, pc, LockedContainer,
          WeakContainers, local, EventQueue, holds, lastEdges, lastOp, crashed,
          waiter, client, taskEnv, exitInfo>>

---------------------------------------------------------------------------
(* Bounds of the model *)

\* object slots besides RootContainer
MaxCt == 3
\* tasks that can sit in one freezer cgroup
MaxTasks == 1

(* Threads: client sessions served by RPC threads, and one event worker *)
Clients == {"t1", "t2"}
Worker == "w"
Threads == Clients \cup {Worker}
NoThread == "none"

Objs == 0..MaxCt
RootContainer == 0
None == -1

---------------------------------------------------------------------------
(* Names *)

ROOT_CONTAINER == <<"/">>
NameA == <<"a">>
NameAB == <<"a", "/", "b">>
NameC == <<"c">>
\* the names requests may use, in std::map (lexicographic) order
NameOrder == <<ROOT_CONTAINER, NameA, NameAB, NameC>>
Names == {NameOrder[i] : i \in 1..Len(NameOrder)}

RFind(name, ch) ==
    LET idx == {i \in 1..Len(name) : name[i] = ch}
    IN  IF idx = {} THEN 0 ELSE CHOOSE i \in idx : \A j \in idx : j <= i

\* TContainer::ParentName: everything before the last '/', "/" without one
ParentName(name) ==
    LET sep == RFind(name, "/")
    IN  IF sep = 0 THEN ROOT_CONTAINER ELSE SubSeq(name, 1, sep - 1)

---------------------------------------------------------------------------
(* Access levels and credentials *)

\* EAccessLevel, in the order of the enumeration
AccessLevelNames == <<"None", "ReadOnly", "ChildOnly", "Normal", "SuperUser", "Internal">>
EAccessLevel(n) == (CHOOSE i \in 1..Len(AccessLevelNames) : AccessLevelNames[i] = n) - 1
AccessLevels == {EAccessLevel(AccessLevelNames[i]) : i \in 1..Len(AccessLevelNames)}

\* users, by uid, and their groups: TCred
UserNames == <<"root", "u1", "u2", "u3">>
User(cred) == UserNames[cred.Uid + 1]
PortoGroup == "porto"
PortoCtGroup == "porto-containers"
\* GroupId(Cred.User() + USER_CT_SUFFIX): the group of the containers of a user
UserCtGroups == <<"root-containers", "u1-containers", "u2-containers", "u3-containers">>
UserCtGroup(cred) == UserCtGroups[cred.Uid + 1]
\* TCred::IsRootUser, TCred::IsMemberOf
IsRootUser(cred) == cred.Uid = 0
IsMemberOf(cred, group) == group \in cred.Groups

---------------------------------------------------------------------------
(* Container records *)

States == {"Stopped", "Running", "Meta", "Paused", "Dead", "Destroyed"}

\* a slot that holds no object
FreeCt == [Name |-> <<>>, Parent |-> None, Children |-> <<>>, State |-> "Free",
           Locked |-> 0, RunningChildren |-> 0, Id |-> 0, IsWeak |-> FALSE,
           Command |-> FALSE, Isolate |-> TRUE, ToRespawn |-> FALSE,
           RespawnCount |-> 0, Res |-> {}, Tasks |-> 0,
           TaskPid |-> 0, WaitPid |-> 0, Frozen |-> FALSE,
           MaxRespawns |-> -1, Aged |-> FALSE,
           AccessLevel |-> 3, OwnerCred |-> [Uid |-> 0, Groups |-> {}], NsName |-> <<>>]

\* TContainer::TContainer: the fields a new record starts with; the state
\* a record is born in is Stopped
NewCt(parent, name) ==
    [FreeCt EXCEPT !.Name = name, !.Parent = parent, !.State = "Stopped"]

\* TContainer::IsRoot
IsRoot(H, o) == H[o].Parent = None /\ H[o].Name = ROOT_CONTAINER

\* TContainer::IsMeta: a container without a command
IsMeta(H, o) == ~H[o].Command

\* the Parent chain of o, nearest first
RECURSIVE AncestorSeq(_, _)
AncestorSeq(H, o) ==
    IF H[o].Parent = None THEN <<>>
    ELSE <<H[o].Parent>> \o AncestorSeq(H, H[o].Parent)

AncestorSet(H, o) == {AncestorSeq(H, o)[i] : i \in 1..Len(AncestorSeq(H, o))}

\* TContainer::IsChildOf
IsChildOf(H, o, base) == base \in AncestorSet(H, o)

Reverse(s) == [i \in 1..Len(s) |-> s[Len(s) + 1 - i]]

\* TContainer::Subtree: the list is grown at the front while it is walked
\* from the back, so it ends as the reverse of the breadth-first order
RECURSIVE SubtreeWalk(_, _, _)
SubtreeWalk(H, visited, i) ==
    IF i > Len(visited) THEN visited
    ELSE SubtreeWalk(H, visited \o H[visited[i]].Children, i + 1)

Subtree(H, o) == Reverse(SubtreeWalk(H, <<o>>, 1))

SeqToSet(s) == {s[i] : i \in 1..Len(s)}
SeqRemove(s, x) == SelectSeq(s, LAMBDA y : y # x)

\* TContainer::Find
Find(name) == IF name \in DOMAIN Containers THEN Containers[name] ELSE None

---------------------------------------------------------------------------
(* The hierarchical lock *)

\* a busy test that lets the implicit read locks of the ancestors block too
LockBusyOnAnyAncestorLock(H, o, shared) ==
    \/ H[o].Locked # 0 /\ (H[o].Locked < 0 \/ ~shared)
    \/ \E p \in AncestorSet(H, o) : H[p].Locked # 0

\* TContainer::Lock, the busy test of one pass of its loop
LockBusy(H, o, shared) ==
    \/ H[o].Locked # 0 /\ (H[o].Locked < 0 \/ ~shared)
    \/ \E p \in AncestorSet(H, o) : H[p].Locked < 0

\* TContainer::Lock, the update once the container is not busy
LockTake(H, o, shared) ==
    [x \in Objs |->
        IF x = o THEN [H[x] EXCEPT !.Locked = @ + (IF shared THEN 1 ELSE -1)]
        ELSE IF x \in AncestorSet(H, o) THEN [H[x] EXCEPT !.Locked = @ + 1]
        ELSE H[x]]

\* TContainer::Unlock: both PORTO_ASSERTs hold
UnlockAsserts(H, o) ==
    /\ H[o].Locked # 0
    /\ \A i \in 1..Len(AncestorSeq(H, o)) :
          \* the walk is upwards, o's own update comes first
          H[AncestorSeq(H, o)[i]].Locked > 0

\* TContainer::Unlock, the update of the counters
Unlock(H, o) ==
    [x \in Objs |->
        IF x = o THEN [H[x] EXCEPT !.Locked = @ + (IF @ > 0 THEN -1 ELSE 1)]
        ELSE IF x \in AncestorSet(H, o) THEN [H[x] EXCEPT !.Locked = @ - 1]
        ELSE H[x]]


---------------------------------------------------------------------------
(* The state machine of a container.  The operations work on a world W:   *)
(* the heap H, the registry reg, the id map ids and the event queue ev,    *)
(* with the history of one operation: the state changes made (edges), the  *)
(* NotifyWaiters calls (wake) and the ids put back (puts).                 *)

World == [H |-> ct, reg |-> Containers, ids |-> ContainerIdMap, ev |-> EventQueue,
          edges |-> {}, wake |-> {}, puts |-> <<>>, sched |-> {}]

\* a state change, as the pair of the old and the new state
Edge(old, new) == <<old, new>>

\* TContainer::NotifyWaiters: recorded with what the waiters see
NotifyWaiters(W, o) ==
    [W EXCEPT !.wake = @ \cup {[ct |-> o, State |-> W.H[o].State,
                                 RunningChildren |-> W.H[o].RunningChildren]}]

\* TContainer::UpdateRunningChildren; diff is +1 or (size_t)-1, and no
\* counter is decremented at 0 in a run of the model (see TypeOK)
RECURSIVE UpdateRunningChildren(_, _, _)
UpdateRunningChildren(W, o, diff) ==
    LET W1 == [W EXCEPT !.H[o].RunningChildren = @ + diff]
        W2 == IF W1.H[o].RunningChildren = 0 /\ W1.H[o].State = "Meta"
              THEN NotifyWaiters(W1, o) ELSE W1
    IN  IF W2.H[o].Parent # None
        THEN UpdateRunningChildren(W2, W2.H[o].Parent, diff)
        ELSE W2

\* TContainer::SetState
SetState(W, o, newState) ==
    IF W.H[o].State = newState THEN W
    ELSE LET old == W.H[o].State
             W1 == IF newState = "Running" THEN UpdateRunningChildren(W, o, 1)
                   ELSE IF old = "Running" THEN UpdateRunningChildren(W, o, -1)
                   ELSE W
             W2 == [W1 EXCEPT !.H[o].State = newState,
                              !.edges = @ \cup {Edge(old, newState)}]
         IN  IF newState \notin {"Running", "Meta"} THEN NotifyWaiters(W2, o) ELSE W2

\* the freezer cgroup of o is frozen, by itself or by a frozen ancestor; the
\* state of a cgroup that does not exist cannot be read, and nothing is
\* frozen then
IsSelfFreezing(H, o) == "cgroup" \in H[o].Res /\ H[o].Frozen
IsParentFreezing(H, o) ==
    "cgroup" \in H[o].Res /\ \E p \in AncestorSet(H, o) : H[p].Frozen
IsFrozen(H, o) == IsSelfFreezing(H, o) \/ IsParentFreezing(H, o)

\* TCgroup::Remove on the cgroups of o: the kernel refuses to remove a
\* cgroup that still has tasks or child cgroups
CgroupRemovable(H, o) ==
    /\ H[o].Tasks = 0
    /\ \A x \in Objs : H[x].Parent = o => "cgroup" \notin H[x].Res

\* TContainer::ShutdownOom
ShutdownOom(W, o) == [W EXCEPT !.H[o].Res = @ \ {"oom"}]

\* TContainer::FreeResources
FreeResources(W, o) ==
    LET W1 == ShutdownOom(W, o)
        keep == IF CgroupRemovable(W1.H, o) THEN {} ELSE {"cgroup"}
    IN  IF IsRoot(W1.H, o)
        THEN [W1 EXCEPT !.H[o].Res = @ \ {"net"}]
        ELSE [W1 EXCEPT !.H[o].Res = @ \cap keep]

(* What the tasks of a cgroup do when they are killed: tk[o] is the number *)
(* of tasks still listed when Terminate gives up waiting (the kernel takes *)
(* its time to reap them), or TermFails when KillAll or Freeze fails.      *)
TermFails == -1
\* the oracles for an operation on the containers of list
TermOracle(H, list) ==
    {tk \in [Objs -> TermFails..MaxTasks] :
        \A x \in Objs : /\ tk[x] <= H[x].Tasks
                        /\ (x \notin SeqToSet(list) \/ H[x].Tasks = 0) => tk[x] = 0}

Min(a, b) == IF a < b THEN a ELSE b

\* TContainer::Terminate.  SIGTERM (when deadline > 0, the container has a
\* task and is not Meta) and the waits change no field of the records; the
\* last loop ends when the cgroup is empty or at the deadline, and the
\* function then returns the error of KillAll, which is Success
Terminate(W, o, deadline, tk) ==
    IF IsRoot(W.H, o) THEN [W |-> W, error |-> "Permission"]
    ELSE IF W.H[o].Tasks = 0 THEN [W |-> W, error |-> "Success"]
    ELSE IF IsFrozen(W.H, o) THEN [W |-> W, error |-> "Permission"]
    ELSE IF tk[o] = TermFails THEN [W |-> W, error |-> "Unknown"]
    ELSE [W |-> [W EXCEPT !.H[o].Tasks = Min(@, tk[o])], error |-> "Success"]

\* TContainer::StopOne
StopOne(W, o, deadline, tk) ==
    IF W.H[o].State = "Stopped" THEN [W |-> W, error |-> "Success"]
    ELSE LET t == IF IsRoot(W.H, o) THEN [W |-> W, error |-> "Success"]
                  ELSE Terminate(W, o, deadline, tk)
         IN  IF t.error # "Success" THEN t
             ELSE LET W1 == [t.W EXCEPT !.H[o].TaskPid = 0, !.H[o].WaitPid = 0]
                      W2 == SetState(W1, o, "Stopped")
                  IN  [W |-> FreeResources(W2, o), error |-> "Success"]

\* TContainer::Stop, the loop over Subtree() calling StopOne
RECURSIVE StopEach(_, _, _, _)
StopEach(W, list, deadline, tk) ==
    IF list = <<>> THEN [W |-> W, error |-> "Success"]
    ELSE LET r == StopOne(W, Head(list), deadline, tk)
         IN  IF r.error # "Success" THEN r
             ELSE StopEach(r.W, Tail(list), deadline, tk)

\* TContainer::Stop, the thaw of a frozen subtree: KillAll and Thaw of each
ThawSubtree(W, o) ==
    [W EXCEPT !.H = [x \in Objs |->
        IF x \in SeqToSet(Subtree(W.H, o)) THEN [W.H[x] EXCEPT !.Frozen = FALSE]
        ELSE W.H[x]]]

\* TContainer::Stop
Stop(W, o, timeout, tk) ==
    IF IsFrozen(W.H, o) /\ IsParentFreezing(W.H, o)
    THEN [W |-> W, error |-> "InvalidState"]
    ELSE LET W1 == IF IsFrozen(W.H, o) THEN ThawSubtree(W, o) ELSE W
         IN  StopEach(W1, Subtree(W1.H, o), timeout, tk)

---------------------------------------------------------------------------
(* Events and pids *)

ExitEvent(pid) == [Type |-> "Exit", Pid |-> pid, Container |-> None]
RespawnEvent(o) == [Type |-> "Respawn", Pid |-> 0, Container |-> o]
OomEvent(o) == [Type |-> "OOM", Pid |-> 0, Container |-> o]
DestroyWeakEvent(o) == [Type |-> "DestroyWeak", Pid |-> 0, Container |-> o]
RotateLogsEvent == [Type |-> "RotateLogs", Pid |-> 0, Container |-> None]
WaitTimeoutEvent == [Type |-> "WaitTimeout", Pid |-> 0, Container |-> None]

\* the pids of the tasks porto waits for, and of the exits not yet handled
PidsInUse(H, ev) ==
    {H[x].WaitPid : x \in Objs} \cup {e.Pid : e \in ev} \cup {0}

\* events that may wait in the queue
MaxEvents == 1

\* fork(): the kernel hands out a pid that no live or unreaped task has; the
\* model picks, for the task of o, the first such pid of o, o + (MaxCt + 1), ...
NewPid(H, ev, o) ==
    LET free == {k \in 0..(MaxEvents + 1) : o + k * (MaxCt + 1) \notin PidsInUse(H, ev)}
    IN  o + (CHOOSE k \in free : \A j \in free : k <= j) * (MaxCt + 1)

\* TContainer::MayRespawn without the test of the count
MayRespawnWithoutLimit(H, o) ==
    /\ H[o].State = "Dead"
    /\ H[o].ToRespawn
    /\ H[H[o].Parent].State \in {"Running", "Meta"}

\* TContainer::MayRespawn
MayRespawn(H, o) ==
    /\ H[o].State = "Dead"
    /\ H[o].ToRespawn
    /\ H[H[o].Parent].State \in {"Running", "Meta"}
    /\ (H[o].MaxRespawns < 0 \/ H[o].RespawnCount < H[o].MaxRespawns)

\* TContainer::ScheduleRespawn; sched keeps what the container and its
\* parent were when the event was added
ScheduleRespawn(W, o) ==
    [W EXCEPT !.ev = @ \cup {RespawnEvent(o)},
              !.sched = @ \cup {[ct |-> o, State |-> W.H[o].State,
                                  Parent |-> W.H[W.H[o].Parent].State]}]

\* TContainer::Expired: Aged stands for GetCurrentTimeMs() >= DeathTime +
\* AgingTime
Expired(H, o) == H[o].State = "Dead" /\ H[o].Aged

\* TContainer::Reap
Reap(W, o, tk) ==
    LET W1 == Terminate(W, o, 0, tk).W
        W2 == ShutdownOom(W1, o)
        \* DeathTime = GetCurrentTimeMs()
        W3 == [W2 EXCEPT !.H[o].TaskPid = 0, !.H[o].WaitPid = 0, !.H[o].Aged = FALSE]
        W4 == IF W3.H[o].State = "Meta" THEN SetState(W3, o, "Stopped")
              ELSE SetState(W3, o, "Dead")
    IN  IF MayRespawn(W4.H, o) THEN ScheduleRespawn(W4, o) ELSE W4

\* TContainer::Exit, the loop over Subtree()
RECURSIVE ReapEach(_, _, _)
ReapEach(W, list, tk) ==
    IF list = <<>> THEN W
    ELSE IF W.H[Head(list)].State \notin {"Stopped", "Dead"}
         THEN ReapEach(Reap(W, Head(list), tk), Tail(list), tk)
         ELSE ReapEach(W, Tail(list), tk)

\* an Exit that reaps the container alone and leaves its subtree running
ExitSelf(W, o, tk) ==
    IF W.H[o].State = "Stopped" THEN W ELSE Reap(W, o, tk)

\* TContainer::Exit
Exit(W, o, tk) ==
    IF W.H[o].State = "Stopped" THEN W
    ELSE ReapEach(W, Subtree(W.H, o), tk)

\* TContainer::Pause, the loop over Subtree()
RECURSIVE PauseEach(_, _)
PauseEach(W, list) ==
    IF list = <<>> THEN W
    ELSE IF W.H[Head(list)].State \in {"Running", "Meta"}
         THEN PauseEach(SetState(W, Head(list), "Paused"), Tail(list))
         ELSE PauseEach(W, Tail(list))

\* TContainer::Pause
Pause(W, o) ==
    IF W.H[o].State \notin {"Running", "Meta"}
    THEN [W |-> W, error |-> "InvalidState"]
    ELSE [W |-> PauseEach([W EXCEPT !.H[o].Frozen = TRUE], Subtree(W.H, o)),
          error |-> "Success"]

\* TContainer::Resume, the loop over Subtree(): the new state is chosen by
\* IsMeta() of the container Resume was called on, for every member
RECURSIVE ResumeEach(_, _, _)
ResumeEach(W, list, o) ==
    IF list = <<>> THEN W
    ELSE LET x == Head(list)
             W1 == [W EXCEPT !.H[x].Frozen = FALSE]
             W2 == IF W1.H[x].State = "Paused"
                   THEN SetState(W1, x, IF IsMeta(W1.H, o) THEN "Meta" ELSE "Running")
                   ELSE W1
         IN  ResumeEach(W2, Tail(list), o)

\* TContainer::Resume
Resume(W, o) ==
    IF IsParentFreezing(W.H, o) THEN [W |-> W, error |-> "InvalidState"]
    ELSE IF ~IsSelfFreezing(W.H, o) THEN [W |-> W, error |-> "InvalidState"]
    ELSE [W |-> ResumeEach([W EXCEPT !.H[o].Frozen = FALSE], Subtree(W.H, o), o),
          error |-> "Success"]

\* TContainer::Kill: the signal is sent, the task dies when it will
Kill(W, o) ==
    IF W.H[o].State # "Running" THEN [W |-> W, error |-> "InvalidState"]
    ELSE [W |-> W, error |-> "Success"]

---------------------------------------------------------------------------
(* Start *)

\* where Start fails; "none" is a start without failure
StartFailPoints ==
    {"none", "workdir", "cgroups", "netcfg", "network", "dynprops", "task", "save"}
\* the oracles for a start of o: the first failure aborts the start, so an
\* oracle names one container, o or a stopped ancestor that Start starts
\* first, and where its start fails
StartOracle(H, o) ==
    {[x \in Objs |-> IF x = who THEN f ELSE "none"] :
        who \in IF H[o].State # "Stopped" THEN {o}
                ELSE {o} \cup {p \in AncestorSet(H, o) : H[p].State = "Stopped"},
        f \in IF H[o].State = "Stopped" THEN StartFailPoints ELSE {"none"}}

\* the constructor enables the memory controller for first-level containers
HasMemoryController(H, o) == H[o].Parent # None /\ IsRoot(H, H[o].Parent)

\* TContainer::PrepareResources: PrepareWorkDir, PrepareCgroups with the OOM
\* monitor; a failure frees the resources
PrepareResources(W, o, f) ==
    \* PrepareWorkDir makes nothing, and so cannot fail, when the directory exists
    IF f = "workdir" /\ "workdir" \notin W.H[o].Res
    THEN [W |-> FreeResources(W, o), error |-> "Unknown"]
    ELSE IF f = "cgroups"
    THEN [W |-> FreeResources([W EXCEPT !.H[o].Res = @ \cup {"workdir", "cgroup"}], o),
          error |-> "Unknown"]
    ELSE [W |-> [W EXCEPT !.H[o].Res = @ \cup {"workdir", "cgroup"} \cup
                     (IF HasMemoryController(W.H, o) THEN {"oom"} ELSE {})],
          error |-> "Success"]

\* TContainer::Start, "Propogate lower access levels into child"
PropagateAccessLevel(W, o) ==
    LET p == W.H[o].Parent
    IN  IF /\ p # None
           /\ W.H[p].AccessLevel < EAccessLevel("ChildOnly")
           /\ W.H[p].AccessLevel < W.H[o].AccessLevel
        THEN [W EXCEPT !.H[o].AccessLevel = W.H[p].AccessLevel]
        ELSE W

\* TContainer::Start after the checks of the parent
StartSelf(W, o, f) ==
    LET r == PrepareResources(PropagateAccessLevel(W, o), o, f)
        W1 == r.W
        W2 == [W1 EXCEPT !.H[o].Res = @ \cup {"net"}]
        spawn == ~IsMeta(W2.H, o) \/ W2.H[o].Isolate
        pid == NewPid(W2.H, W2.ev, o)
        W3 == IF spawn
              THEN [W2 EXCEPT !.H[o].Tasks = 1, !.H[o].TaskPid = pid, !.H[o].WaitPid = pid]
              ELSE W2
        W4 == SetState(W3, o, IF IsMeta(W3.H, o) THEN "Meta" ELSE "Running")
    IN  IF r.error # "Success" THEN r
        \* ParseNetConfig fails: return error
        ELSE IF f = "netcfg" THEN [W |-> W1, error |-> "InvalidValue"]
        \* PrepareNetwork fails: goto error
        ELSE IF f = "network" THEN [W |-> FreeResources(W1, o), error |-> "Unknown"]
        \* ApplyDynamicProperties fails: return error
        ELSE IF f = "dynprops" THEN [W |-> W2, error |-> "Unknown"]
        \* PrepareTask or TaskEnv.Start fails: goto error
        ELSE IF f = "task" /\ spawn THEN [W |-> FreeResources(W2, o), error |-> "Unknown"]
        \* Save fails after the state was set
        ELSE IF f = "save" THEN [W |-> W4, error |-> "Unknown"]
        ELSE [W |-> W4, error |-> "Success"]

\* TContainer::Start
RECURSIVE Start(_, _, _)
Start(W, o, fp) ==
    IF W.H[o].State # "Stopped" THEN [W |-> W, error |-> "InvalidState"]
    ELSE LET p == W.H[o].Parent
             r == IF p # None /\ W.H[p].State = "Stopped"
                  THEN Start(W, p, fp)
                  ELSE [W |-> W, error |-> "Success"]
         IN  IF r.error # "Success" THEN r
             ELSE IF p # None /\ r.W.H[p].State \notin {"Running", "Meta"}
             THEN [W |-> r.W, error |-> "InvalidState"]
             ELSE IF p # None /\ IsFrozen(r.W.H, p)
             THEN [W |-> r.W, error |-> "InvalidState"]
             ELSE StartSelf(r.W, o, fp[o])

\* TContainer::Respawn
Respawn(W, o, tk, fp) ==
    LET s == Stop(W, o, 1, tk)
        r == Start(s.W, o, fp)
    IN  IF s.error # "Success" THEN s
        ELSE [W |-> [r.W EXCEPT !.H[o].RespawnCount = @ + 1], error |-> r.error]

---------------------------------------------------------------------------
(* Create and Destroy *)

\* a slot for a new record
FreeSlots(H) == {x \in Objs : H[x].State = "Free"}
\* the slot of a new record: the one numbered like its name when that is
\* free, the lowest free one otherwise
NameIndex(name) == CHOOSE i \in 1..Len(NameOrder) : NameOrder[i] = name
NewSlot(H, name) ==
    IF name \in Names /\ NameIndex(name) - 1 \in FreeSlots(H) THEN NameIndex(name) - 1
    ELSE CHOOSE x \in FreeSlots(H) : \A y \in FreeSlots(H) : x <= y

\* TIdMap::Get: the lowest id that is not handed out
IdMapGet(ids) == CHOOSE i \in 1..(MaxCt + 2) : i \notin ids /\ \A j \in 1..(i - 1) : j \in ids

\* std::map::erase
MapErase(reg, name) == [n \in DOMAIN reg \ {name} |-> reg[n]]
\* std::map::operator[]
MapPut(reg, name, o) == [n \in DOMAIN reg \cup {name} |-> IF n = name THEN o ELSE reg[n]]

\* TContainer::Find on the registry of a world
FindIn(reg, name) == IF name \in DOMAIN reg THEN reg[name] ELSE None

\* TContainer::Register
Register(W, o) ==
    LET p == W.H[o].Parent
        W1 == [W EXCEPT !.reg = MapPut(@, W.H[o].Name, o)]
    IN  IF p # None THEN [W1 EXCEPT !.H[p].Children = Append(@, o)] ELSE W1

\* TContainer::Create, under the registry mutex; saveFails: Save() fails
Create(W, name, weak, saveFails) ==
    LET parent == FindIn(W.reg, ParentName(name))
        o == NewSlot(W.H, name)
        id == IdMapGet(W.ids)
        \* the constructor takes a level below ChildOnly from the parent
        level == IF parent # None /\ W.H[parent].AccessLevel < EAccessLevel("ChildOnly")
                 THEN W.H[parent].AccessLevel ELSE EAccessLevel("Normal")
        W1 == [W EXCEPT !.H[o] = [NewCt(parent, name) EXCEPT !.Id = id, !.IsWeak = weak,
                                                             !.AccessLevel = level],
                        !.ids = @ \cup {id}]
    IN  IF name \in DOMAIN W.reg THEN [W |-> W, error |-> "ContainerAlreadyExists"]
        ELSE IF parent = None /\ name # ROOT_CONTAINER
        THEN [W |-> W, error |-> "ContainerDoesNotExist"]
        \* err: the id is put back and the record dropped
        ELSE IF saveFails
        THEN [W |-> [W EXCEPT !.puts = Append(@, id)], error |-> "Unknown"]
        ELSE [W |-> Register(W1, o), error |-> "Success"]

\* TContainer::Destroy, the part under the registry mutex
DestroyErase(W, o) ==
    LET p == W.H[o].Parent
        W1 == [W EXCEPT !.ids = @ \ {W.H[o].Id},
                        !.puts = Append(@, W.H[o].Id),
                        !.reg = MapErase(@, W.H[o].Name),
                        !.edges = @ \cup {Edge(W.H[o].State, "Destroyed")},
                        !.H[o].State = "Destroyed"]
    IN  IF p # None THEN [W1 EXCEPT !.H[p].Children = SeqRemove(@, o)] ELSE W1

\* TContainer::Destroy, the loop over the children.  It ignores the result
\* of child->Destroy(): a child that cannot be destroyed stays first in
\* Children and the loop takes it again ("Loop": the call has not returned)
RECURSIVE DestroyBegin(_, _, _)
RECURSIVE DestroyChildren(_, _, _)
DestroyChildren(W, o, tk) ==
    IF W.H[o].Children = <<>> THEN [W |-> W, error |-> "Success"]
    ELSE LET child == Head(W.H[o].Children)
             \* child->Destroy()
             b == DestroyBegin(W, child, tk)
         IN  IF b.error # "Success" THEN [W |-> b.W, error |-> "Loop"]
             ELSE DestroyChildren(DestroyErase(b.W, child), o, tk)

\* TContainer::Destroy up to LockContainers(): the stop, the loop over the
\* children and the release of the network
DestroyBegin(W, o, tk) ==
    LET s == IF W.H[o].State # "Stopped" THEN Stop(W, o, 0, tk)
             ELSE [W |-> W, error |-> "Success"]
        c == DestroyChildren(s.W, o, tk)
    IN  IF s.error # "Success" THEN s
        ELSE IF c.error # "Success" THEN c
        ELSE [W |-> [c.W EXCEPT !.H[o].Res = @ \ {"net"}], error |-> "Success"]

\* TContainer::Destroy run by one thread alone, from the result b of its
\* part before LockContainers()
Destroy(o, b) ==
    IF b.error # "Success" THEN b
    ELSE [W |-> DestroyErase(b.W, o), error |-> "Success"]

\* the last reference to a destroyed record is dropped: its slot is free
\* again and the events that name it find it gone
ReleaseRecord(W, o) ==
    [W EXCEPT !.H[o] = FreeCt,
              !.ev = {e \in @ : e.Container # o}]

RECURSIVE ReleaseDestroyed(_, _)
ReleaseDestroyed(W, list) ==
    IF list = <<>> THEN W
    ELSE IF W.H[Head(list)].State = "Destroyed"
         THEN ReleaseDestroyed(ReleaseRecord(W, Head(list)), Tail(list))
         ELSE ReleaseDestroyed(W, Tail(list))

---------------------------------------------------------------------------
(* The session of a client: identification, names and access *)

SELF_CONTAINER == <<"self">>
DOT_CONTAINER == <<".">>
ROOT_PORTO_NAMESPACE == <<"/", "porto", "/">>

StringStartsWith(str, prefix) ==
    Len(prefix) <= Len(str) /\ SubSeq(str, 1, Len(prefix)) = prefix
\* std::string::substr(pos)
Substr(str, pos) == SubSeq(str, pos + 1, Len(str))

\* TContainer::GetPortoNamespace: NsName along the parent chain; the root,
\* which has no parent, adds nothing
RECURSIVE GetPortoNamespace(_, _)
GetPortoNamespace(H, o) ==
    IF H[o].Parent # None THEN GetPortoNamespace(H, H[o].Parent) \o H[o].NsName
    ELSE <<>>

\* a session before its first request
NoCred == [Uid |-> 0, Groups |-> {}]
NoPeer == [Pid |-> 0, Uid |-> 0, Gid |-> 0, Groups |-> {}, Ct |-> None]
NoClient == [Pid |-> 0, TaskCred |-> [Uid |-> 0, Gid |-> 0], AccessLevel |-> EAccessLevel("None"),
             Cred |-> NoCred, ClientContainer |-> None,
             Connected |-> FALSE,
             \* history: the peer of the last request after the first
             peer |-> NoPeer,
             \* the buffer up to Offset, Offset, Length, Processing, and
             \* whether the epoll loop watches the socket for input, output
             Buffer |-> <<>>, Offset |-> 0, Length |-> 0, Processing |-> FALSE,
             Input |-> FALSE, Output |-> FALSE,
             \* the bytes in the socket that were not received yet
             sock |-> <<>>,
             \* history: the requests handed out and not yet answered
             inflight |-> 0,
             \* history: the last request, its arguments (rel: the name a
             \* Create was asked for; target: the container that was checked,
             \* for AcceptConnection the one of the peer) and its result
             op |-> "none", rel |-> <<>>, child |-> FALSE, target |-> None,
             name |-> <<>>, error |-> "Success"]

\* the AccessLevel of o alone
OwnAccessLevel(H, o) == H[o].AccessLevel

\* the smallest AccessLevel of o and its ancestors
RECURSIVE MinAccessLevel(_, _)
MinAccessLevel(H, o) ==
    IF H[o].Parent = None THEN H[o].AccessLevel
    ELSE Min(H[o].AccessLevel, MinAccessLevel(H, H[o].Parent))

\* the same pid, uid and gid as recorded
SamePeer(H, cl, peer) ==
    cl.Pid = peer.Pid /\ cl.TaskCred.Uid = peer.Uid /\ cl.TaskCred.Gid = peer.Gid

\* TClient::IdentifyClient, "check that request from the same pid and
\* container is still here"
StillHere(H, cl, peer) ==
    /\ cl.Pid = peer.Pid /\ cl.TaskCred.Uid = peer.Uid /\ cl.TaskCred.Gid = peer.Gid
    /\ cl.ClientContainer # None
    /\ H[cl.ClientContainer].State \in {"Running", "Meta"}

\* TClient::IdentifyClient; peer is what SO_PEERCRED and /proc say of the
\* peer: its pid, uid, gid and groups, and Ct, the container of its freezer
\* cgroup (None when TContainer::FindTaskContainer finds none)
IdentifyClient(H, cl, peer, initial) ==
    IF ~initial /\ StillHere(H, cl, peer)
    THEN [client |-> cl, error |-> "Success"]
    ELSE LET c1 == [cl EXCEPT !.TaskCred.Uid = peer.Uid, !.TaskCred.Gid = peer.Gid,
                              !.Pid = peer.Pid]
             o == peer.Ct
             c2 == [c1 EXCEPT !.AccessLevel = MinAccessLevel(H, o)]
             cred == IF IsRoot(H, o) THEN [Uid |-> peer.Uid, Groups |-> peer.Groups]
                     ELSE H[o].OwnerCred
             level == IF IsRootUser(cred)
                      THEN IF c2.AccessLevel = EAccessLevel("Normal")
                           THEN EAccessLevel("SuperUser") ELSE c2.AccessLevel
                      ELSE IF ~IsMemberOf(cred, PortoGroup)
                      THEN IF c2.AccessLevel >= EAccessLevel("ReadOnly")
                           THEN EAccessLevel("ReadOnly") ELSE c2.AccessLevel
                      ELSE c2.AccessLevel
         IN  IF o = None THEN [client |-> c1, error |-> "ContainerDoesNotExist"]
             ELSE IF c2.AccessLevel = EAccessLevel("None")
             THEN [client |-> c2, error |-> "Permission"]
             ELSE IF H[o].State \notin {"Running", "Meta"}
             THEN [client |-> c2, error |-> "Permission"]
             ELSE [client |-> [c2 EXCEPT !.ClientContainer = o, !.Cred = cred,
                                         !.AccessLevel = level],
                   error |-> "Success"]

\* TClient::IsSuperUser
IsSuperUser(cl) == cl.AccessLevel >= EAccessLevel("SuperUser")

\* CanControl(const TCred &other) without the rules of the owner
CanControlAnyCred(cl, other) ==
    IF cl.AccessLevel <= EAccessLevel("ReadOnly") THEN "Permission" ELSE "Success"

\* TClient::CanControl(const TCred &other)
CanControlCred(cl, other) ==
    IF cl.AccessLevel <= EAccessLevel("ReadOnly") THEN "Permission"
    ELSE IF IsSuperUser(cl) \/ cl.Cred.Uid = other.Uid THEN "Success"
    ELSE IF IsMemberOf(other, PortoCtGroup) THEN "Success"
    ELSE IF IsMemberOf(other, UserCtGroup(cl.Cred)) THEN "Success"
    ELSE "Permission"

\* TClient::CanControl, the loop: the nearest container with the level
\* ChildOnly, from ClientContainer upwards (None when there is none)
RECURSIVE ChildOnlyBase(_, _)
ChildOnlyBase(H, base) ==
    IF base = None THEN None
    ELSE IF H[base].AccessLevel = EAccessLevel("ChildOnly") THEN base
    ELSE ChildOnlyBase(H, H[base].Parent)

\* TClient::CanControl(const TContainer &ct, bool child)
CanControl(H, cl, o, child) ==
    LET base == ChildOnlyBase(H, cl.ClientContainer)
    IN  IF cl.AccessLevel < EAccessLevel("ChildOnly") THEN "Permission"
        ELSE IF ~child /\ IsRoot(H, o) THEN "Permission"
        ELSE IF (~child \/ ~IsRoot(H, o)) /\ CanControlCred(cl, H[o].OwnerCred) # "Success"
        THEN "Permission"
        ELSE IF cl.AccessLevel > EAccessLevel("ChildOnly") THEN "Success"
        ELSE IF base = None THEN "Permission"
        ELSE IF (child /\ base = o) \/ IsChildOf(H, o, base) THEN "Success"
        ELSE "Permission"

\* TClient::ComposeName
ComposeName(H, cl, name) ==
    LET ns == GetPortoNamespace(H, cl.ClientContainer)
    IN  IF name = ROOT_CONTAINER THEN [name |-> ROOT_CONTAINER, error |-> "Success"]
        ELSE IF ns = <<>> THEN [name |-> name, error |-> "Success"]
        ELSE IF ~StringStartsWith(name, ns) THEN [name |-> <<>>, error |-> "Permission"]
        ELSE [name |-> Substr(name, Len(ns)), error |-> "Success"]

\* TClient::ResolveName
ResolveName(H, cl, relative_name) ==
    LET ns == GetPortoNamespace(H, cl.ClientContainer)
        abs == Substr(relative_name, Len(ROOT_PORTO_NAMESPACE))
    IN  IF relative_name = ROOT_CONTAINER THEN [name |-> ROOT_CONTAINER, error |-> "Success"]
        ELSE IF relative_name = SELF_CONTAINER
        THEN [name |-> H[cl.ClientContainer].Name, error |-> "Success"]
        ELSE IF relative_name = DOT_CONTAINER
        THEN [name |-> ParentName(ns), error |-> "Success"]
        ELSE IF StringStartsWith(relative_name, SELF_CONTAINER \o <<"/">>)
        THEN [name |-> (IF IsRoot(H, cl.ClientContainer) THEN <<>>
                        ELSE H[cl.ClientContainer].Name)
                       \o Substr(relative_name, Len(SELF_CONTAINER)),
              error |-> "Success"]
        ELSE IF StringStartsWith(relative_name, ROOT_PORTO_NAMESPACE)
        THEN IF ~StringStartsWith(abs, ns) THEN [name |-> abs, error |-> "Permission"]
             ELSE [name |-> abs, error |-> "Success"]
        ELSE [name |-> ns \o relative_name, error |-> "Success"]

\* TClient::WriteContainer up to the lock: the container that is to be
\* locked, or the error
WriteAccess(H, reg, cl, relative_name, child) ==
    LET n == ResolveName(H, cl, relative_name)
        o == FindIn(reg, n.name)
    IN  IF cl.AccessLevel <= EAccessLevel("ReadOnly")
        THEN [ct |-> None, name |-> <<>>, error |-> "Permission"]
        ELSE IF n.error # "Success" THEN [ct |-> None, name |-> n.name, error |-> n.error]
        ELSE IF o = None
        THEN [ct |-> None, name |-> n.name, error |-> "ContainerDoesNotExist"]
        ELSE [ct |-> o, name |-> n.name, error |-> CanControl(H, cl, o, child)]

\* TContainer::ValidName: no empty component, no component "self" or "."
ValidName(name) ==
    IF Len(name) = 0 THEN FALSE
    ELSE IF name[1] = "/" THEN name = ROOT_CONTAINER
    ELSE /\ name[Len(name)] # "/"
         /\ \A i \in 1..(Len(name) - 1) : ~(name[i] = "/" /\ name[i + 1] = "/")
         /\ \A i \in 1..Len(name) :
               (/\ name[i] \in {"self", "."}
                /\ (i = 1 \/ name[i - 1] = "/")
                /\ (i = Len(name) \/ name[i + 1] = "/")) => FALSE

\* TContainer::Create for the client cl: the checks of the name and of
\* CurrentClient->CanControl(*parent, true), and OwnerCred of the new record
CreateBy(W, cl, name, saveFails) ==
    LET parent == FindIn(W.reg, ParentName(name))
        r == Create(W, name, FALSE, saveFails)
    IN  IF ~ValidName(name) THEN [W |-> W, error |-> "InvalidValue"]
        ELSE IF name \in DOMAIN W.reg THEN [W |-> W, error |-> "ContainerAlreadyExists"]
        ELSE IF parent # None /\ CanControl(W.H, cl, parent, TRUE) # "Success"
        THEN [W |-> W, error |-> "Permission"]
        ELSE IF r.error # "Success" THEN r
        ELSE [W |-> [r.W EXCEPT !.H[FindIn(r.W.reg, name)].OwnerCred = cl.Cred],
              error |-> "Success"]

---------------------------------------------------------------------------
(* The daemon after start-up: the root container is registered and Meta *)

RootCt ==
    [FreeCt EXCEPT !.Name = ROOT_CONTAINER, !.State = "Meta", !.Id = 1,
                   !.Isolate = FALSE, !.Res = {"cgroup", "net"}]

\* the history of the last step: the thread, its operation and the result
NoOp == [t |-> NoThread, op |-> "none", name |-> <<>>, error |-> "Success", puts |-> <<>>]
Op(t, op, name, error) == [NoOp EXCEPT !.t = t, !.op = op, !.name = name, !.error = error]

\* no Wait request is pending: the waiter's Client is expired
\* Who, State and RunningChildren: the container the callback was called
\* with, as it was at the call
NoWaiter == [Client |-> FALSE, Calls |-> 0, On |-> {}, Wildcard |-> FALSE, WildcardLock |-> NoThread,
             Who |-> None, State |-> "none", RunningChildren |-> 0]

\* CurrentClient: the __thread pointer of client.cpp 26
NoLocal == [ct |-> None, shared |-> FALSE, stack |-> <<>>, iter |-> 0, ev |-> "none",
            CurrentClient |-> NoThread]

---------------------------------------------------------------------------
(* The spawn protocol of TTaskEnv::Start.  D is the daemon, B the broker   *)
(* (after vfork its child, which goes on with the same code), T the task   *)
(* made by clone and A the application forked by the task under            *)
(* QuadroFork.  MasterSock holds the frames written to Sock and not yet    *)
(* read by the daemon, Sock counts the zero frames written to MasterSock   *)
(* and not yet read; MasterSock2 and Sock2 are the second pair.            *)

Procs == {"B", "T", "A"}

PidFrame(what, from) == [kind |-> "Pid", what |-> what, from |-> from]
ErrorFrame(from) == [kind |-> "Error", what |-> "none", from |-> from]

\* ExitStatus and OomKilled of a new container
NoExitInfo == [o \in Objs |-> [ExitStatus |-> 0, OomKilled |-> FALSE]]

\* no Start is running
NoTaskEnv ==
    [Isolate |-> FALSE, TripleFork |-> FALSE, QuadroFork |-> FALSE,
     pc |-> [p \in Procs \cup {"D"} |-> "none"],
     ReportStage |-> [p \in Procs |-> 0],
     MasterSock |-> <<>>, Sock |-> 0, MasterSock2 |-> <<>>, Sock2 |-> 0,
     \* the pid frames the daemon has read, and all that were written
     got |-> <<>>, sent |-> <<>>,
     \* the exit status of forkPid, the result of Start
     status |-> 0, error |-> "none",
     \* history: the daemon sent its wake-up, the command was exec'd
     woke |-> FALSE, execd |-> FALSE,
     \* history: a participant has aborted or was killed
     failed |-> FALSE]

\* container.cpp 976-999: QuadroFork and TripleFork need Isolate
ForkFlags ==
    {f \in [Isolate : BOOLEAN, TripleFork : BOOLEAN, QuadroFork : BOOLEAN] :
        (f.TripleFork \/ f.QuadroFork) => f.Isolate}

\* TTaskEnv::ReportPid
ReportPid(s, p, frame) ==
    [s EXCEPT !.MasterSock = Append(@, frame), !.sent = Append(@, frame),
              !.ReportStage[p] = @ + 1]

\* the exit status of forkPid when the broker ends in failure: after vfork
\* it is the child that ends and the process the daemon waits for leaves
\* with EXIT_SUCCESS
FailureStatus(s) == IF s.TripleFork /\ s.pc["B"] # "setup" THEN 0 ELSE 1

\* TTaskEnv::Abort: a pid for every stage not yet reported, the error, _exit
Abort(s, p) ==
    LET f == PidFrame("Abort", p)
        pids == IF s.ReportStage[p] = 0 THEN <<f, f>>
                ELSE IF s.ReportStage[p] = 1 THEN <<f>> ELSE <<>>
    IN  [s EXCEPT !.MasterSock = @ \o pids \o <<ErrorFrame(p)>>,
                  !.sent = @ \o pids,
                  !.pc[p] = "exited", !.failed = TRUE,
                  !.status = IF p = "B" THEN FailureStatus(s) ELSE @]

\* kill_all: the cgroups and forkPid are killed and Start returns the error
KillAll(s) ==
    [s EXCEPT !.pc = [p \in Procs \cup {"D"} |->
                         IF p = "D" THEN "done"
                         ELSE IF s.pc[p] \in {"none", "exited"} THEN s.pc[p] ELSE "dead"],
              !.error = "Unknown"]

\* the pids the daemon reads before it wakes the task up
OnePid == 2 - 1
PidsBeforeWakeup == 2

\* every process that had Sock has exited, is dead or has called exec
SockClosed(s) ==
    /\ s.pc["B"] \in {"exited", "dead", "portoinit"}
    /\ s.pc["T"] \in {"none", "exited", "dead", "portoinit", "execd"}
    /\ s.pc["A"] \in {"none", "exited", "dead", "execd"}

\* TTaskEnv::Start in the daemon, after the fork: the next step
DaemonNext(s) ==
    IF s.pc["D"] = "RecvPid"
    THEN IF s.MasterSock = <<>> THEN {KillAll(s)}       \* timeout or end of file
         ELSE IF Head(s.MasterSock).kind # "Pid" THEN {KillAll(s)}
         ELSE {[s EXCEPT !.MasterSock = Tail(@), !.got = Append(@, Head(s.MasterSock)),
                         !.pc["D"] = IF Len(s.got) + 1 >= PidsBeforeWakeup
                                     THEN "waitpid" ELSE "RecvPid"]}
    ELSE IF s.pc["D"] = "waitpid"
    THEN IF s.pc["B"] \in {"exited", "dead", "portoinit"}
         THEN {[s EXCEPT !.pc["D"] = "SendZero"]} ELSE {}
    ELSE IF s.pc["D"] = "SendZero"
    THEN {[s EXCEPT !.Sock = @ + 1, !.woke = TRUE, !.pc["D"] = "RecvError"]}
    ELSE IF s.pc["D"] = "RecvError"
    THEN IF s.MasterSock # <<>> THEN {KillAll(s)}       \* the reported error
         ELSE IF SockClosed(s) THEN {[s EXCEPT !.pc["D"] = "status"]}
         ELSE {KillAll(s)}                               \* timeout
    ELSE IF s.pc["D"] = "status"
    THEN IF s.status # 0 THEN {KillAll(s)}
         ELSE {[s EXCEPT !.pc["D"] = "done", !.error = "Success"]}
    ELSE {}

\* the broker reports the pid of the task as VPid too
BrokerReportsVPid(s) == s.Isolate /\ ~s.QuadroFork
\* the task reports its own pid as VPid
TaskReportsVPid(s) == ~s.Isolate

\* the forked process of TTaskEnv::Start: the next step
BrokerNext(s) ==
    IF s.pc["B"] = "setup"
    THEN {[s EXCEPT !.pc["B"] = "clone"], Abort(s, "B")}
    ELSE IF s.pc["B"] = "clone"
    THEN {[s EXCEPT !.pc["B"] = "ReportWPid", !.pc["T"] = "start",
                    !.ReportStage["T"] = s.ReportStage["B"]],
          Abort(s, "B")}
    ELSE IF s.pc["B"] = "ReportWPid"
    THEN {[ReportPid(s, "B", PidFrame("WPid", "B")) EXCEPT
              !.pc["B"] = IF BrokerReportsVPid(s) THEN "ReportVPid" ELSE "SendZero"]}
    ELSE IF s.pc["B"] = "ReportVPid"
    THEN {[ReportPid(s, "B", PidFrame("VPid", "B")) EXCEPT !.pc["B"] = "SendZero"]}
    ELSE IF s.pc["B"] = "SendZero"
    THEN {[s EXCEPT !.Sock = @ + 1,
                    !.ReportStage["B"] = IF ~s.Isolate /\ ~s.QuadroFork THEN @ + 1 ELSE @,
                    !.pc["B"] = IF s.QuadroFork THEN "RecvPid2" ELSE "finish"]}
    ELSE IF s.pc["B"] = "RecvPid2"
    THEN IF s.MasterSock2 # <<>>
         THEN {[ReportPid([s EXCEPT !.MasterSock2 = Tail(@)], "B", PidFrame("VPid", "A"))
                   EXCEPT !.pc["B"] = "SendZero2"]}
         ELSE IF s.pc["T"] \in {"exited", "dead", "portoinit"} /\ s.pc["A"] \in {"none", "exited", "dead"}
         THEN {Abort(s, "B")}
         ELSE {}
    ELSE IF s.pc["B"] = "SendZero2"
    THEN {[s EXCEPT !.Sock2 = @ + 1, !.pc["B"] = "finish"]}
    ELSE IF s.pc["B"] = "finish"
    THEN IF s.TripleFork
         THEN {[s EXCEPT !.pc["B"] = "portoinit"], [s EXCEPT !.pc["B"] = "exited"]}
         ELSE {[s EXCEPT !.pc["B"] = "exited"]}
    ELSE {}

\* TTaskEnv::StartChild and ConfigureChild in the task T and, after the fork
\* of QuadroFork, in the application A: the next step
ChildNext(s, p) ==
    IF s.pc[p] = "start"
    THEN {[s EXCEPT !.ReportStage[p] = @ + 1, !.pc[p] = "RecvZero"]}
    ELSE IF s.pc[p] = "RecvZero"
    THEN IF s.Sock = 0 THEN {}
         ELSE {[s EXCEPT !.Sock = @ - 1,
                         !.ReportStage[p] = IF s.Isolate /\ ~s.QuadroFork THEN @ + 1 ELSE @,
                         !.pc[p] = IF TaskReportsVPid(s) THEN "ReportVPid" ELSE "Configure"]}
    ELSE IF s.pc[p] = "ReportVPid"
    THEN {[ReportPid(s, p, PidFrame("VPid", p)) EXCEPT !.pc[p] = "Configure"]}
    ELSE IF s.pc[p] = "Configure"
    THEN {IF s.QuadroFork
          THEN [s EXCEPT !.pc["T"] = "ApplyLimit", !.pc["A"] = "SendPid2",
                         !.ReportStage["A"] = s.ReportStage["T"]]
          ELSE [s EXCEPT !.pc[p] = "Wakeup"],
          Abort(s, p)}
    ELSE IF s.pc[p] = "ApplyLimit"
    THEN {[s EXCEPT !.pc[p] = "portoinit"], Abort(s, p)}
    ELSE IF s.pc[p] = "SendPid2"
    THEN {[s EXCEPT !.MasterSock2 = Append(@, PidFrame("VPid", p)), !.pc[p] = "RecvZero2"]}
    ELSE IF s.pc[p] = "RecvZero2"
    THEN IF s.Sock2 > 0
         THEN {[s EXCEPT !.Sock2 = @ - 1, !.ReportStage[p] = @ + 1, !.pc[p] = "Configure2"]}
         ELSE IF s.pc["B"] \in {"exited", "dead", "portoinit"} THEN {Abort(s, p)}
         ELSE {}
    ELSE IF s.pc[p] = "Configure2"
    THEN {[s EXCEPT !.pc[p] = "Wakeup"], Abort(s, p)}
    ELSE IF s.pc[p] = "Wakeup"
    THEN IF s.Sock = 0 THEN {} ELSE {[s EXCEPT !.Sock = @ - 1, !.pc[p] = "Exec"]}
    ELSE IF s.pc[p] = "Exec"
    THEN {[s EXCEPT !.pc[p] = "execd", !.execd = TRUE], Abort(s, p)}
    ELSE {}

\* a process of the construction is killed from outside
Killed(s, p) ==
    [s EXCEPT !.pc[p] = "dead", !.failed = TRUE,
              !.status = IF p = "B" THEN FailureStatus(s) ELSE @]

InitCommon ==
    /\ ContainersMutex = NoThread
    /\ pc = [t \in Threads |-> "idle"]
    /\ LockedContainer = [t \in Clients |-> None]
    /\ WeakContainers = [t \in Clients |-> {}]
    /\ local = [t \in Threads |-> NoLocal]
    /\ EventQueue = {}
    /\ holds = {}
    /\ lastEdges = {}
    /\ lastOp = NoOp
    /\ crashed = FALSE
    /\ waiter = NoWaiter
    /\ taskEnv = NoTaskEnv
    /\ exitInfo = NoExitInfo
    /\ client = NoClient

Init ==
    /\ InitCommon
    /\ ct = [x \in Objs |-> IF x = RootContainer THEN RootCt ELSE FreeCt]
    /\ Containers = [n \in {ROOT_CONTAINER} |-> RootContainer]
    /\ ContainerIdMap = {1}

\* the world an operation leaves becomes the state
Commit(W) ==
    /\ ct' = W.H
    /\ Containers' = W.reg
    /\ ContainerIdMap' = W.ids
    /\ EventQueue' = W.ev
    /\ lastEdges' = W.edges

\* the names the requests of the sequential runs carry
Requested == {NameA, NameAB}

Sequential ==
    UNCHANGED <<ContainersMutex, LockedContainer, WeakContainers, holds, lastOp, crashed,
                waiter, client, taskEnv, exitInfo>>

---------------------------------------------------------------------------
(* Requests of a client, each run to its end *)

CreateOp(t, name) ==
    /\ pc[t] = "idle"
    /\ FreeSlots(ct) # {}
    /\ \E saveFails \in BOOLEAN :
          LET r == Create(World, name, FALSE, saveFails)
          IN  Commit(r.W)
    /\ UNCHANGED <<pc, local>>
    /\ Sequential

\* TContainer::SetProperty of command, isolate and respawn, which are set
\* on a stopped container
SetProperty(W, o, prop, value) ==
    IF IsRoot(W.H, o) THEN [W |-> W, error |-> "Permission"]
    ELSE IF W.H[o].State # "Stopped" THEN [W |-> W, error |-> "InvalidState"]
    ELSE IF prop = "command" THEN [W |-> [W EXCEPT !.H[o].Command = value], error |-> "Success"]
    ELSE IF prop = "isolate" THEN [W |-> [W EXCEPT !.H[o].Isolate = value], error |-> "Success"]
    ELSE [W |-> [W EXCEPT !.H[o].ToRespawn = value], error |-> "Success"]

SetPropertyOp(t, name, props) ==
    /\ pc[t] = "idle"
    /\ Find(name) # None
    /\ \E prop \in props, value \in BOOLEAN :
          LET r == SetProperty(World, Find(name), prop, value)
          IN  Commit(r.W)
    /\ UNCHANGED <<pc, local>>
    /\ Sequential

StartOp(t, name) ==
    /\ pc[t] = "idle"
    /\ IF Find(name) = None THEN Commit(World)
       ELSE \E fp \in StartOracle(ct, Find(name)) :
               LET r == Start(World, Find(name), fp)
               IN  Commit(r.W)
    /\ UNCHANGED <<pc, local>>
    /\ Sequential

StopOp(t, name) ==
    /\ pc[t] = "idle"
    /\ IF Find(name) = None THEN Commit(World)
       ELSE \E timeout \in {0, 1}, tk \in TermOracle(ct, Subtree(ct, Find(name))) :
               LET r == Stop(World, Find(name), timeout, tk)
               IN  Commit(r.W)
    /\ UNCHANGED <<pc, local>>
    /\ Sequential

PauseOp(t, name) ==
    /\ pc[t] = "idle"
    /\ IF Find(name) = None THEN Commit(World)
       ELSE LET r == Pause(World, Find(name))
            IN  Commit(r.W)
    /\ UNCHANGED <<pc, local>>
    /\ Sequential

ResumeOp(t, name) ==
    /\ pc[t] = "idle"
    /\ IF Find(name) = None THEN Commit(World)
       ELSE LET r == Resume(World, Find(name))
            IN  Commit(r.W)
    /\ UNCHANGED <<pc, local>>
    /\ Sequential

KillOp(t, name) ==
    /\ pc[t] = "idle"
    /\ IF Find(name) = None THEN Commit(World)
       ELSE LET r == Kill(World, Find(name))
            IN  Commit(r.W)
    /\ UNCHANGED <<pc, local>>
    /\ Sequential

\* a Destroy request; when a child cannot be destroyed the request stays in
\* the loop over the children and tries again
DestroyRun(t, o) ==
    \E tk \in TermOracle(ct, Subtree(ct, o)) :
       LET r == Destroy(o, DestroyBegin(World, o, tk))
       IN  IF r.error = "Loop"
           THEN /\ Commit(r.W)
                /\ pc' = [pc EXCEPT ![t] = "destroy"]
                /\ local' = [local EXCEPT ![t].ct = o]
           ELSE /\ Commit(ReleaseDestroyed(r.W, Subtree(ct, o)))
                /\ pc' = [pc EXCEPT ![t] = "idle"]
                /\ local' = [local EXCEPT ![t] = NoLocal]

DestroyOp(t, name) ==
    /\ pc[t] = "idle"
    /\ IF Find(name) = None
       THEN Commit(World) /\ UNCHANGED <<pc, local>>
       ELSE DestroyRun(t, Find(name))
    /\ Sequential

DestroyRetry(t) ==
    /\ pc[t] = "destroy"
    /\ DestroyRun(t, local[t].ct)
    /\ Sequential

---------------------------------------------------------------------------
(* The tasks and the kernel *)

\* the task porto waits for is alive
MainTaskAlive(o) ==
    /\ ct[o].WaitPid # 0
    /\ ExitEvent(ct[o].WaitPid) \notin EventQueue

\* the main task of o exits: SIGCHLD, and an Exit event is queued
TaskExits(o) ==
    /\ ct[o].Tasks >= 1
    /\ MainTaskAlive(o)
    /\ ~IsFrozen(ct, o)
    /\ Cardinality(EventQueue) < MaxEvents
    /\ ct' = [ct EXCEPT ![o].Tasks = @ - 1]
    /\ EventQueue' = EventQueue \cup {ExitEvent(ct[o].WaitPid)}
    /\ lastEdges' = {}
    /\ UNCHANGED <<Containers, ContainerIdMap, pc, local>>
    /\ Sequential

\* a task of o other than the main one is gone
TaskGone(o) ==
    /\ ct[o].Tasks >= (IF MainTaskAlive(o) THEN 2 ELSE 1)
    /\ ~IsFrozen(ct, o)
    /\ ct' = [ct EXCEPT ![o].Tasks = @ - 1]
    /\ lastEdges' = {}
    /\ UNCHANGED <<Containers, ContainerIdMap, EventQueue, pc, local>>
    /\ Sequential

\* TContainer::MayReceiveOom
MayReceiveOom(H, o) ==
    /\ "oom" \in H[o].Res
    /\ H[o].TaskPid # 0
    /\ H[o].State # "Dead"

\* the kernel signals OOM on the event fd of o: an OOM event is queued
OomKill(o) ==
    /\ ct[o].State # "Free"
    /\ MayReceiveOom(ct, o)
    /\ OomEvent(o) \notin EventQueue
    /\ Cardinality(EventQueue) < MaxEvents
    /\ EventQueue' = EventQueue \cup {OomEvent(o)}
    /\ lastEdges' = {}
    /\ UNCHANGED <<ct, Containers, ContainerIdMap, pc, local>>
    /\ Sequential

---------------------------------------------------------------------------
(* TContainer::Event, each event handled to its end *)

\* bound on the respawns of one container
MaxRespawnCount == 1

\* an Exit event delivered to the first container that has a wait task
ExitToAnyTask(pid) ==
    LET hit == {i \in 1..Len(NameOrder) :
                   /\ NameOrder[i] \in DOMAIN Containers
                   /\ ct[Containers[NameOrder[i]]].WaitPid # 0}
    IN  IF hit = {} THEN None
        ELSE Containers[NameOrder[CHOOSE i \in hit : \A j \in hit : i <= j]]

\* case EEventType::Exit: the first registered container waiting for the pid
ExitTarget(pid) ==
    LET hit == {i \in 1..Len(NameOrder) :
                   /\ NameOrder[i] \in DOMAIN Containers
                   /\ ct[Containers[NameOrder[i]]].WaitPid = pid}
    IN  IF hit = {} THEN None
        ELSE Containers[NameOrder[CHOOSE i \in hit : \A j \in hit : i <= j]]

EventExit(e) ==
    /\ e.Type = "Exit"
    /\ IF ExitTarget(e.Pid) = None
       THEN Commit([World EXCEPT !.ev = @ \ {e}])
       ELSE \E tk \in TermOracle(ct, Subtree(ct, ExitTarget(e.Pid))) :
               Commit(Exit([World EXCEPT !.ev = @ \ {e}], ExitTarget(e.Pid), tk))

EventOom(e) ==
    /\ e.Type = "OOM"
    /\ \E tk \in TermOracle(ct, Subtree(ct, e.Container)) :
          Commit(Exit([World EXCEPT !.ev = @ \ {e}], e.Container, tk))

EventRespawn(e) ==
    /\ e.Type = "Respawn"
    /\ ct[e.Container].RespawnCount < MaxRespawnCount
    /\ IF ~MayRespawn(ct, e.Container)
       THEN Commit([World EXCEPT !.ev = @ \ {e}])
       ELSE \E tk \in TermOracle(ct, Subtree(ct, e.Container)),
               fp \in StartOracle(ct, e.Container) :
               LET r == Respawn([World EXCEPT !.ev = @ \ {e}], e.Container, tk, fp)
               IN  Commit(r.W)

HandleEvent ==
    /\ pc[Worker] = "idle"
    /\ \E e \in EventQueue : EventExit(e) \/ EventOom(e)
    /\ UNCHANGED <<pc, local>>
    /\ Sequential

Next ==
    \/ \E t \in {"t1"}, name \in Requested :
          \/ CreateOp(t, name)
          \/ SetPropertyOp(t, name, {"command", "isolate"})
          \/ StartOp(t, name)
          \/ StopOp(t, name)
          \/ PauseOp(t, name)
          \/ ResumeOp(t, name)
          \/ KillOp(t, name)
          \/ DestroyOp(t, name)
    \/ \E t \in {"t1"} : DestroyRetry(t)
    \/ \E o \in Objs : TaskExits(o) \/ TaskGone(o) \/ OomKill(o)
    \/ HandleEvent

Spec == Init /\ [][Next]_vars

---------------------------------------------------------------------------
(* Properties of the sequential runs *)

Registered == {Containers[n] : n \in DOMAIN Containers}
Descendants(o) == {d \in Objs : ct[d].State # "Free" /\ IsChildOf(ct, d, o)}

\* no counter leaves the range of the model: RunningChildren is a size_t and
\* is never decremented at 0
TypeOK ==
    \A o \in Objs : /\ ct[o].RunningChildren \in 0..(MaxCt + 1)
                    /\ ct[o].Tasks \in 0..MaxTasks
                    /\ ct[o].State \in States \cup {"Free"}

NoOperationInProgress == \A t \in Threads : pc[t] = "idle"

\* C2: a container that is Stopped while no operation is in progress holds
\* no kernel resource: no cgroup, no OOM event source, no network handle and
\* no working directory
C2_StoppedHoldsNoResources ==
    \A o \in Registered :
        (ct[o].State = "Stopped" /\ NoOperationInProgress) => ct[o].Res = {}

\* the state changes of the table of the specification
AllowedEdges ==
    {<<"Stopped", "Running">>, <<"Stopped", "Meta">>, <<"Running", "Paused">>,
     <<"Meta", "Paused">>, <<"Paused", "Running">>, <<"Paused", "Meta">>,
     <<"Running", "Dead">>, <<"Meta", "Stopped">>, <<"Running", "Stopped">>,
     <<"Paused", "Stopped">>, <<"Dead", "Stopped">>, <<"Stopped", "Destroyed">>}

\* C3: every state change an operation makes is one of the table: a
\* container never goes from Paused or Meta to Dead, and never leaves
\* Destroyed
C3_OnlyAllowedStateChanges == lastEdges \subseteq AllowedEdges

\* C4: RunningChildren of c is the number of descendants of c that are
\* Running, or Meta with a Running descendant
C4_RunningChildrenCountsDescendants ==
    \A c \in Registered :
        ct[c].RunningChildren =
            Cardinality({d \in Descendants(c) :
                \/ ct[d].State = "Running"
                \/ /\ ct[d].State = "Meta"
                   /\ \E e \in Descendants(d) : ct[e].State = "Running"})

\* C5: every Running or Meta container adds exactly 1 to RunningChildren of
\* each of its ancestors and every other container adds 0, whatever the
\* container c adds to its own counter (own is 0 or 1)
C5_RunningOrMetaContributeOne ==
    \A c \in Registered :
        \E own \in {0, 1} :
            ct[c].RunningChildren =
                own + Cardinality({d \in Descendants(c) :
                                      ct[d].State \in {"Running", "Meta"}})

\* a step in which Stop(name, timeout) returns Success
StopReturnsSuccess(name, timeout) ==
    /\ Find(name) # None
    /\ \E tk \in TermOracle(ct, Subtree(ct, Find(name))) :
          LET r == Stop(World, Find(name), timeout, tk)
          IN  r.error = "Success" /\ ct' = r.W.H

\* C8: when Stop(c, timeout) returns Success, for timeout 0 as for any
\* other, every container of the subtree of c is Stopped and no task is
\* left in its freezer cgroup
C8_StopLeavesNoTask ==
    [][\A name \in Requested, timeout \in {0, 1} :
          StopReturnsSuccess(name, timeout) =>
              \A x \in SeqToSet(Subtree(ct, Find(name))) :
                  ct'[x].State = "Stopped" /\ ct'[x].Tasks = 0]_vars

\* Stop(name, timeout) with the oracle tk changes nothing and returns Success
StopIsNoOp(name, timeout, tk) ==
    LET r == Stop(World, Find(name), timeout, tk)
    IN  /\ r.error = "Success"
        /\ r.W.H = ct
        /\ r.W.reg = Containers
        /\ r.W.ids = ContainerIdMap
        /\ r.W.ev = EventQueue

\* C12: Stop on a container that is Stopped returns Success and changes
\* nothing: no state, runtime field or counter of the container, of a
\* descendant or of an ancestor, and not the registry
C12_StopOfStoppedIsNoOp ==
    \A name \in Requested :
        (Find(name) # None /\ ct[Find(name)].State = "Stopped") =>
            \A timeout \in {0, 1}, tk \in TermOracle(ct, Subtree(ct, Find(name))) :
                StopIsNoOp(name, timeout, tk)

\* a step in which x, running under the Meta container m, exits and becomes
\* Dead, and leaves m without a Running descendant
LastRunningDescendantExits(m, x) ==
    /\ m # RootContainer /\ x # m
    /\ ct[m].State = "Meta" /\ ct[x].State = "Running"
    /\ IsChildOf(ct, x, m)
    /\ ct'[x].State = "Dead"
    /\ \A d \in Objs : (ct'[d].State # "Free" /\ d # m /\ IsChildOf(ct', d, m))
                            => ct'[d].State # "Running"

\* C13: when the last running descendant of a Meta container m exits, the
\* descendant becomes Dead and m becomes Stopped, not Dead and not Meta
C13_MetaStopsWithLastDescendant ==
    [][\A m \in Objs, x \in Objs :
          LastRunningDescendantExits(m, x) => ct'[m].State = "Stopped"]_vars

\* Pause(o) set exactly the Running and Meta containers of the subtree of
\* o to Paused
PausedExactly(H, o) ==
    \A x \in Objs :
        H[x].State = IF x \in SeqToSet(Subtree(ct, o)) /\ ct[x].State \in {"Running", "Meta"}
                     THEN "Paused" ELSE ct[x].State

\* C16: Pause(c) sets exactly the Running and Meta containers of the
\* subtree of c to Paused, and Resume(c) after it gives every container of
\* the subtree the state it had before the Pause
C16_ResumeRestoresStates ==
    \A name \in Requested :
        LET o == Find(name)
            p == Pause(World, o)
            r == Resume(p.W, o)
        IN  (o # None /\ p.error = "Success") =>
                /\ PausedExactly(p.W.H, o)
                /\ r.error = "Success"
                /\ \A x \in SeqToSet(Subtree(ct, o)) : r.W.H[x].State = ct[x].State

\* the places of TContainer::Start after PrepareResources where it fails
AfterPrepareResources == {"netcfg", "network", "dynprops", "task"}

\* a step in which Start(name) starts who (the container or a stopped
\* ancestor of it) and that start returns an error after PrepareResources
StartFailsAfterPrepare(name, who) ==
    /\ Find(name) # None
    /\ \E fp \in StartOracle(ct, Find(name)) :
          LET r == Start(World, Find(name), fp)
          IN  /\ fp[who] \in AfterPrepareResources
              \* the error of the failure, not of a check before the start
              /\ r.error \notin {"Success", "InvalidState"}
              /\ ct' = r.W.H

\* FreeResources has been run on o: running it again frees nothing
ResourcesFreed(H, o) ==
    FreeResources([World EXCEPT !.H = H], o).H[o].Res = H[o].Res

\* C11: when Start returns an error after PrepareResources acquired the
\* resources, FreeResources has been run on the container and it is Stopped
C11_StartFailureFreesResources ==
    [][\A name \in Requested, who \in Objs :
          StartFailsAfterPrepare(name, who) =>
              ResourcesFreed(ct', who) /\ ct'[who].State = "Stopped"]_vars

---------------------------------------------------------------------------
(* The locks under concurrency: two client sessions served by their RPC     *)
(* threads and one event worker.  A thread is at one step while it holds    *)
(* ContainersMutex, so a handler is split where it gives the mutex up: in   *)
(* ContainersCV.wait, after lock.unlock(), and in the loop of RotateLogs    *)
(* that TContainer::Event enters from DestroyWeak without the mutex.        *)

StartWorld ==
    [H |-> [x \in Objs |-> IF x = RootContainer THEN RootCt ELSE FreeCt],
     reg |-> [n \in {ROOT_CONTAINER} |-> RootContainer], ids |-> {1}, ev |-> {},
     edges |-> {}, wake |-> {}, puts |-> <<>>, sched |-> {}]

NoFailure == [x \in Objs |-> "none"]

\* the daemon with "a" and "a/b" running a command and "c", stopped, the
\* weak container of the first client: what Create, SetProperty and Start
\* make of the daemon after start-up
LockWorld ==
    LET W1 == Create(StartWorld, NameA, FALSE, FALSE).W
        W2 == SetProperty(W1, FindIn(W1.reg, NameA), "command", TRUE).W
        W3 == Create(W2, NameAB, FALSE, FALSE).W
        W4 == SetProperty(W3, FindIn(W3.reg, NameAB), "command", TRUE).W
        W5 == Start(W4, FindIn(W4.reg, NameAB), NoFailure).W
    IN  Create(W5, NameC, TRUE, FALSE).W

InitLock ==
    /\ ct = LockWorld.H
    /\ Containers = LockWorld.reg
    /\ ContainerIdMap = LockWorld.ids
    /\ ContainersMutex = NoThread
    /\ pc = [t \in Threads |-> "idle"]
    /\ LockedContainer = [t \in Clients |-> None]
    /\ WeakContainers = [t \in Clients |-> IF t = "t1" THEN {FindIn(LockWorld.reg, NameC)} ELSE {}]
    /\ local = [t \in Threads |-> NoLocal]
    /\ EventQueue = {}
    /\ holds = {}
    /\ lastEdges = {}
    /\ lastOp = NoOp
    /\ crashed = FALSE
    /\ waiter = NoWaiter
    /\ taskEnv = NoTaskEnv
    /\ exitInfo = NoExitInfo
    /\ client = NoClient

Hold(t, o, shared) == [t |-> t, ct |-> o, shared |-> shared]
HoldOf(t) == {h \in holds : h.t = t}

\* the daemon runs and ContainersMutex can be taken
MutexFree == ~crashed /\ ContainersMutex = NoThread

\* TClient::ReleaseContainer(true) inside ReadContainer and WriteContainer:
\* the heap after the lock the session holds is given back
KeptLocked(t) == ct
Released(t) ==
    IF LockedContainer[t] = None THEN ct ELSE Unlock(ct, LockedContainer[t])
ReleaseAsserts(t) ==
    LockedContainer[t] = None \/ UnlockAsserts(ct, LockedContainer[t])

\* TClient::ReadContainer and TClient::WriteContainer
LockRequest(t, name, shared, try_lock) ==
    /\ pc[t] = "idle"
    /\ MutexFree
    /\ LET o == Find(name)
           opname == IF shared THEN "ReadContainer" ELSE "WriteContainer"
       IN  IF o = None
           THEN /\ lastOp' = Op(t, opname, name, "ContainerDoesNotExist")
                /\ UNCHANGED <<ct, pc, LockedContainer, local, holds, crashed>>
           ELSE IF ~ReleaseAsserts(t)
           THEN \* PORTO_ASSERT in Unlock
                /\ crashed' = TRUE
                /\ lastOp' = Op(t, opname, name, "Abort")
                /\ UNCHANGED <<ct, pc, LockedContainer, local, holds>>
           ELSE /\ LockedContainer' = [LockedContainer EXCEPT ![t] =
                                          IF LockBusy(Released(t), o, shared) THEN None ELSE o]
                /\ UNCHANGED crashed
                /\ IF ~LockBusy(Released(t), o, shared)
                   THEN /\ ct' = LockTake(Released(t), o, shared)
                        /\ holds' = (holds \ HoldOf(t)) \cup {Hold(t, o, shared)}
                        /\ lastOp' = Op(t, opname, name, "Success")
                        /\ UNCHANGED <<pc, local>>
                   ELSE IF try_lock
                   THEN /\ ct' = Released(t)
                        /\ holds' = holds \ HoldOf(t)
                        /\ lastOp' = Op(t, opname, name, "Busy")
                        /\ UNCHANGED <<pc, local>>
                   ELSE \* ContainersCV.wait(lock)
                        /\ ct' = Released(t)
                        /\ holds' = holds \ HoldOf(t)
                        /\ lastOp' = Op(t, opname, name, "Waiting")
                        /\ pc' = [pc EXCEPT ![t] = "wait"]
                        /\ local' = [local EXCEPT ![t].ct = o, ![t].shared = shared]
    /\ UNCHANGED <<client, taskEnv, exitInfo, waiter, Containers, ContainerIdMap, ContainersMutex, WeakContainers,
                   EventQueue, lastEdges>>

ReadContainer(t, name, try_lock) == LockRequest(t, name, TRUE, try_lock)
WriteContainer(t, name) == LockRequest(t, name, FALSE, FALSE)

\* TContainer::Lock after ContainersCV.wait returned: the loop runs again
LockWake(t) ==
    /\ pc[t] = "wait"
    /\ MutexFree
    /\ LET o == local[t].ct
           opname == IF local[t].shared THEN "ReadContainer" ELSE "WriteContainer"
       IN  IF ct[o].State = "Destroyed"
           THEN /\ lastOp' = Op(t, opname, ct[o].Name, "ContainerDoesNotExist")
                /\ UNCHANGED <<ct, holds, LockedContainer>>
           ELSE /\ ~LockBusy(ct, o, local[t].shared)
                /\ ct' = LockTake(ct, o, local[t].shared)
                /\ holds' = holds \cup {Hold(t, o, local[t].shared)}
                /\ LockedContainer' = [LockedContainer EXCEPT ![t] = o]
                /\ lastOp' = Op(t, opname, ct[o].Name, "Success")
    /\ pc' = [pc EXCEPT ![t] = "idle"]
    /\ local' = [local EXCEPT ![t] = [NoLocal EXCEPT !.CurrentClient = local[t].CurrentClient]]
    /\ UNCHANGED <<client, taskEnv, exitInfo, waiter, Containers, ContainerIdMap, ContainersMutex, WeakContainers,
                   EventQueue, lastEdges, crashed>>

\* TClient::StartRequest
StartRequest(t) ==
    /\ pc[t] = "idle"
    /\ ~crashed
    /\ IF local[t].CurrentClient = NoThread
       THEN /\ local' = [local EXCEPT ![t].CurrentClient = t]
            /\ lastOp' = Op(t, "StartRequest", <<>>, "Success")
            /\ UNCHANGED crashed
       ELSE \* PORTO_ASSERT(CurrentClient == nullptr)
            /\ crashed' = TRUE
            /\ lastOp' = Op(t, "StartRequest", <<>>, "Abort")
            /\ UNCHANGED local
    /\ UNCHANGED <<client, taskEnv, exitInfo, waiter, ct, Containers, ContainerIdMap, ContainersMutex, pc,
                   LockedContainer, WeakContainers, EventQueue, holds, lastEdges>>

\* TClient::FinishRequest: ReleaseContainer(), which takes the mutex itself,
\* then the thread pointer is cleared
FinishRequest(t) ==
    /\ pc[t] = "idle"
    /\ MutexFree
    /\ LockedContainer[t] # None \/ local[t].CurrentClient # NoThread
    /\ IF ReleaseAsserts(t)
       THEN /\ ct' = Released(t)
            /\ holds' = holds \ HoldOf(t)
            /\ LockedContainer' = [LockedContainer EXCEPT ![t] = None]
            /\ local' = [local EXCEPT ![t].CurrentClient = NoThread]
            /\ lastOp' = Op(t, "FinishRequest", <<>>, "Success")
            /\ UNCHANGED crashed
       ELSE /\ crashed' = TRUE
            /\ lastOp' = Op(t, "FinishRequest", <<>>, "Abort")
            /\ UNCHANGED <<ct, holds, LockedContainer, local>>
    /\ UNCHANGED <<client, taskEnv, exitInfo, waiter, Containers, ContainerIdMap, ContainersMutex, pc, WeakContainers,
                   EventQueue, lastEdges>>

\* TClient::CloseConnection: TContainer::DestroyWeak for the weak containers
CloseConnection(t) ==
    /\ pc[t] = "idle"
    /\ ~crashed
    /\ LockedContainer[t] = None
    /\ WeakContainers[t] # {}
    /\ EventQueue' = EventQueue \cup
          {DestroyWeakEvent(o) : o \in {x \in WeakContainers[t] : ct[x].IsWeak}}
    /\ WeakContainers' = [WeakContainers EXCEPT ![t] = {}]
    /\ lastOp' = Op(t, "CloseConnection", <<>>, "Success")
    /\ UNCHANGED <<client, taskEnv, exitInfo, waiter, ct, Containers, ContainerIdMap, ContainersMutex, pc, LockedContainer,
                   local, holds, lastEdges, crashed>>

---------------------------------------------------------------------------
(* TContainer::Event in the event worker *)

\* log rotation is due: a RotateLogs event is queued
RotateLogsTimer ==
    /\ ~crashed
    /\ RotateLogsEvent \notin EventQueue
    /\ EventQueue' = EventQueue \cup {RotateLogsEvent}
    /\ lastOp' = Op(Worker, "Timer", <<>>, "Success")
    /\ UNCHANGED <<client, taskEnv, exitInfo, waiter, ct, Containers, ContainerIdMap, ContainersMutex, pc, LockedContainer,
                   WeakContainers, local, holds, lastEdges, crashed>>

\* the next container in state Running at or after position i of the map
NextRunning(i) ==
    LET hit == {j \in i..Len(NameOrder) :
                   /\ NameOrder[j] \in DOMAIN Containers
                   /\ ct[Containers[NameOrder[j]]].State = "Running"}
    IN  IF hit = {} THEN 0 ELSE CHOOSE j \in hit : \A k \in hit : j <= k

\* case RotateLogs reached with the mutex held: the loop runs to the first
\* Running container. LockRead either waits, or takes the lock, and then
\* ct->Unlock() locks ContainersMutex, which this thread holds: the thread
\* blocks for ever with the mutex. Without a Running container the handler
\* ends with lock.unlock().
RotateLogsLocked(i) ==
    IF NextRunning(i) = 0
    THEN /\ pc' = [pc EXCEPT ![Worker] = "idle"]
         /\ local' = [local EXCEPT ![Worker] = NoLocal]
         /\ ContainersMutex' = NoThread
         /\ UNCHANGED <<ct, holds>>
    ELSE LET o == Containers[NameOrder[NextRunning(i)]]
         IN  IF LockBusy(ct, o, TRUE)
             THEN /\ pc' = [pc EXCEPT ![Worker] = "rl_wait"]
                  /\ local' = [local EXCEPT ![Worker].ct = o, ![Worker].iter = NextRunning(i)]
                  /\ ContainersMutex' = NoThread
                  /\ UNCHANGED <<ct, holds>>
             ELSE /\ pc' = [pc EXCEPT ![Worker] = "deadlock"]
                  /\ local' = [local EXCEPT ![Worker].ct = o, ![Worker].iter = NextRunning(i)]
                  /\ ContainersMutex' = Worker
                  /\ ct' = LockTake(ct, o, TRUE)
                  /\ holds' = holds \cup {Hold(Worker, o, TRUE)}

\* the worker takes a RotateLogs event
EventRotateLogs ==
    /\ pc[Worker] = "idle"
    /\ MutexFree
    /\ RotateLogsEvent \in EventQueue
    /\ EventQueue' = EventQueue \ {RotateLogsEvent}
    /\ RotateLogsLocked(1)
    /\ lastOp' = Op(Worker, "RotateLogs", <<>>, "Success")
    /\ UNCHANGED <<client, taskEnv, exitInfo, waiter, Containers, ContainerIdMap, LockedContainer, WeakContainers,
                   lastEdges, crashed>>

\* ContainersCV.wait returned in LockRead of the loop: the loop goes on
RotateLogsWake ==
    /\ pc[Worker] = "rl_wait"
    /\ MutexFree
    /\ ~LockBusy(ct, local[Worker].ct, TRUE) \/ ct[local[Worker].ct].State = "Destroyed"
    /\ IF ct[local[Worker].ct].State = "Destroyed"
       THEN RotateLogsLocked(local[Worker].iter + 1)
       ELSE /\ pc' = [pc EXCEPT ![Worker] = "deadlock"]
            /\ ContainersMutex' = Worker
            /\ ct' = LockTake(ct, local[Worker].ct, TRUE)
            /\ holds' = holds \cup {Hold(Worker, local[Worker].ct, TRUE)}
            /\ UNCHANGED local
    /\ lastOp' = Op(Worker, "RotateLogs", <<>>, "Success")
    /\ UNCHANGED <<client, taskEnv, exitInfo, waiter, Containers, ContainerIdMap, LockedContainer, WeakContainers,
                   EventQueue, lastEdges, crashed>>

\* case DestroyWeak: ct->Lock(lock) for writing, then lock.unlock()
DestroyWeakLock(o) ==
    IF ct[o].State = "Destroyed"
    THEN \* Lock fails; the handler falls through to the loop of RotateLogs
         /\ pc' = [pc EXCEPT ![Worker] = "rl_racy"]
         /\ local' = [local EXCEPT ![Worker].ct = o, ![Worker].iter = 1]
         /\ UNCHANGED <<ct, holds>>
    ELSE IF LockBusy(ct, o, FALSE)
    THEN /\ pc' = [pc EXCEPT ![Worker] = "dw_wait"]
         /\ local' = [local EXCEPT ![Worker].ct = o]
         /\ UNCHANGED <<ct, holds>>
    ELSE /\ pc' = [pc EXCEPT ![Worker] = "dw_destroy"]
         /\ local' = [local EXCEPT ![Worker].ct = o]
         /\ ct' = LockTake(ct, o, FALSE)
         /\ holds' = holds \cup {Hold(Worker, o, FALSE)}

\* the worker takes a DestroyWeak event; the record is alive, a client or
\* the registry refers to it
EventDestroyWeak ==
    /\ pc[Worker] = "idle"
    /\ MutexFree
    /\ \E e \in EventQueue :
          /\ e.Type = "DestroyWeak"
          /\ EventQueue' = EventQueue \ {e}
          /\ DestroyWeakLock(e.Container)
          /\ lastOp' = Op(Worker, "DestroyWeak", ct[e.Container].Name, "Success")
    /\ UNCHANGED <<client, taskEnv, exitInfo, waiter, Containers, ContainerIdMap, ContainersMutex, LockedContainer,
                   WeakContainers, lastEdges, crashed>>

\* ContainersCV.wait returned in ct->Lock(lock) of case DestroyWeak
DestroyWeakWake ==
    /\ pc[Worker] = "dw_wait"
    /\ MutexFree
    /\ ~LockBusy(ct, local[Worker].ct, FALSE) \/ ct[local[Worker].ct].State = "Destroyed"
    /\ DestroyWeakLock(local[Worker].ct)
    /\ lastOp' = Op(Worker, "DestroyWeak", ct[local[Worker].ct].Name, "Success")
    /\ UNCHANGED <<client, taskEnv, exitInfo, waiter, Containers, ContainerIdMap, ContainersMutex, LockedContainer,
                   WeakContainers, EventQueue, lastEdges, crashed>>

\* TContainer::Destroy by thread t that holds the write lock on o, up to
\* LockContainers(): when the stop fails Destroy returns; the children are
\* destroyed one by one, each under the registry mutex
DestroyBeginStep(t, o, erase, done) ==
    /\ MutexFree
    /\ \E tk \in TermOracle(ct, Subtree(ct, o)) :
          LET r == DestroyBegin(World, o, tk)
          IN  /\ Commit(r.W)
              /\ lastOp' = [Op(t, "DestroyBegin", ct[o].Name, r.error)
                               EXCEPT !.puts = r.W.puts]
              /\ pc' = [pc EXCEPT ![t] = IF r.error = "Success" THEN erase
                                         ELSE IF r.error = "Loop" THEN @ ELSE done]
    /\ UNCHANGED <<client, taskEnv, exitInfo, waiter, ContainersMutex, LockedContainer, WeakContainers, local,
                   holds, crashed>>

\* TContainer::Destroy from LockContainers() on
DestroyEraseStep(t, o, done) ==
    /\ MutexFree
    /\ LET W == DestroyErase(World, o)
       IN  /\ Commit(W)
           /\ lastOp' = [Op(t, "Destroy", ct[o].Name, "Success") EXCEPT !.puts = W.puts]
    /\ pc' = [pc EXCEPT ![t] = done]
    /\ UNCHANGED <<client, taskEnv, exitInfo, waiter, ContainersMutex, LockedContainer, WeakContainers, local,
                   holds, crashed>>

\* ct->Destroy() of case DestroyWeak, under the write lock
DestroyWeakDestroy ==
    /\ pc[Worker] = "dw_destroy"
    /\ DestroyBeginStep(Worker, local[Worker].ct, "dw_erase", "dw_unlock")

DestroyWeakErase ==
    /\ pc[Worker] = "dw_erase"
    /\ DestroyEraseStep(Worker, local[Worker].ct, "dw_unlock")

\* ct->Unlock() of a worker that holds no mutex, then on to position next
\* of the loop of RotateLogs
WorkerUnlock(next) ==
    /\ MutexFree
    /\ IF UnlockAsserts(ct, local[Worker].ct)
       THEN /\ ct' = Unlock(ct, local[Worker].ct)
            /\ holds' = holds \ HoldOf(Worker)
            /\ pc' = [pc EXCEPT ![Worker] = "rl_racy"]
            /\ local' = [local EXCEPT ![Worker].iter = next]
            /\ lastOp' = Op(Worker, "Unlock", ct[local[Worker].ct].Name, "Success")
            /\ UNCHANGED crashed
       ELSE \* PORTO_ASSERT
            /\ crashed' = TRUE
            /\ lastOp' = Op(Worker, "Unlock", ct[local[Worker].ct].Name, "Abort")
            /\ UNCHANGED <<ct, holds, pc, local>>
    /\ UNCHANGED <<client, taskEnv, exitInfo, waiter, Containers, ContainerIdMap, ContainersMutex, LockedContainer,
                   WeakContainers, EventQueue, lastEdges>>

DestroyWeakUnlock ==
    /\ pc[Worker] = "dw_unlock"
    /\ WorkerUnlock(1)

\* the loop of RotateLogs entered from case DestroyWeak, after lock.unlock():
\* ct->LockRead(lock) runs without ContainersMutex. This step is the test of
\* Lock: at the end of the map lock.unlock() throws std::system_error, the
\* lock is not owned, and the daemon ends unless the loop of the worker,
\* which is not part of these sources, catches it; when the container is busy ContainersCV.wait(lock) is
\* called with a lock that is not owned, which is undefined: the daemon
\* aborts or the thread tests again later.
RacyCheck ==
    /\ pc[Worker] = "rl_racy"
    /\ ~crashed
    /\ LET i == NextRunning(local[Worker].iter)
           o == Containers[NameOrder[i]]
       IN  IF i = 0
           THEN /\ crashed' \in BOOLEAN
                /\ lastOp' = Op(Worker, "RotateLogs", <<>>, IF crashed' THEN "Abort" ELSE "Success")
                /\ pc' = [pc EXCEPT ![Worker] = IF crashed' THEN @ ELSE "idle"]
                /\ local' = [local EXCEPT ![Worker] = IF crashed' THEN @ ELSE NoLocal]
           ELSE IF LockBusy(ct, o, TRUE)
           THEN /\ crashed' \in BOOLEAN
                /\ lastOp' = Op(Worker, "LockRead", ct[o].Name, IF crashed' THEN "Abort" ELSE "Waiting")
                /\ local' = [local EXCEPT ![Worker].ct = o, ![Worker].iter = i]
                /\ UNCHANGED pc
           ELSE /\ pc' = [pc EXCEPT ![Worker] = "rl_take"]
                /\ local' = [local EXCEPT ![Worker].ct = o, ![Worker].iter = i]
                /\ lastOp' = Op(Worker, "LockRead", ct[o].Name, "NotBusy")
                /\ UNCHANGED crashed
    /\ UNCHANGED <<client, taskEnv, exitInfo, waiter, ct, Containers, ContainerIdMap, ContainersMutex, LockedContainer,
                   WeakContainers, EventQueue, holds, lastEdges>>

\* the update of Lock, made without ContainersMutex after the test passed
RacyTake ==
    /\ pc[Worker] = "rl_take"
    /\ ~crashed
    /\ ct' = LockTake(ct, local[Worker].ct, TRUE)
    /\ holds' = holds \cup {Hold(Worker, local[Worker].ct, TRUE)}
    /\ pc' = [pc EXCEPT ![Worker] = "rl_unlock"]
    /\ lastOp' = Op(Worker, "LockRead", ct[local[Worker].ct].Name, "Success")
    /\ UNCHANGED <<client, taskEnv, exitInfo, waiter, Containers, ContainerIdMap, ContainersMutex, LockedContainer,
                   WeakContainers, local, EventQueue, lastEdges, crashed>>

RacyUnlock ==
    /\ pc[Worker] = "rl_unlock"
    /\ WorkerUnlock(local[Worker].iter + 1)

NextLock ==
    \/ \E t \in Clients, name \in Names :
          \/ \E try_lock \in BOOLEAN : ReadContainer(t, name, try_lock)
          \/ name # ROOT_CONTAINER /\ WriteContainer(t, name)
    \/ \E t \in Clients : LockWake(t) \/ FinishRequest(t) \/ CloseConnection(t)
    \/ RotateLogsTimer
    \/ EventRotateLogs
    \/ RotateLogsWake
    \/ EventDestroyWeak
    \/ DestroyWeakWake
    \/ DestroyWeakDestroy
    \/ DestroyWeakErase
    \/ DestroyWeakUnlock
    \/ RacyCheck
    \/ RacyTake
    \/ RacyUnlock

SpecLock == InitLock /\ [][NextLock]_vars

---------------------------------------------------------------------------
(* Properties of the lock *)

Related(c1, c2) ==
    c1 = c2 \/ c1 \in AncestorSet(ct, c2) \/ c2 \in AncestorSet(ct, c1)

\* C1: under every interleaving of Lock and Unlock by the sessions and the
\* event worker, a write-locked container has exactly one holder, no
\* container is locked under a write-locked ancestor (so no container is
\* write-locked above a locked descendant), and every lock held shows as
\* Locked >= 1 on each ancestor of its container.
C1_LockInvariants ==
    /\ \A h \in holds : ~h.shared => \A g \in holds : g.ct = h.ct => g = h
    /\ \A h \in holds, g \in holds :
          ~h.shared => h.ct \notin AncestorSet(ct, g.ct)
    /\ \A h \in holds : \A a \in AncestorSet(ct, h.ct) : ct[a].Locked >= 1

\* C6: while one write lock is the only lock held, on c1, a read lock on a
\* container c2 that is not c1, not above c1 and not below c1 is not busy:
\* the request is granted at once and a try-lock does not return Busy.
C6_UnrelatedReadLockNotBlocked ==
    \A h \in holds :
        (holds = {h} /\ ~h.shared) =>
            \A c2 \in Registered : ~Related(h.ct, c2) => ~LockBusy(ct, c2, TRUE)

\* session t2 was given the read lock on c while t1 held the write lock on a
C6_Witness ==
    /\ lastOp = Op("t2", "ReadContainer", NameC, "Success")
    /\ holds = {Hold("t1", Find(NameA), FALSE), Hold("t2", Find(NameC), TRUE)}

---------------------------------------------------------------------------
(* The registry under concurrency: Create and Restore, which run under     *)
(* ContainersMutex from their first line to their last, against Destroy,   *)
(* which runs under the write lock of its container and takes the mutex    *)
(* for its last part only.  A destroyed record keeps its slot.             *)

\* TContainer::Restore of the record of a stopped container, under the
\* registry mutex; fails: Load, ApplyDynamicProperties or Save fails
Restore(W, name, id, fails) ==
    LET parent == FindIn(W.reg, ParentName(name))
        o == NewSlot(W.H, name)
        W1 == [W EXCEPT !.H[o] = [NewCt(parent, name) EXCEPT !.Id = id],
                        !.ids = @ \cup {id}]
    IN  IF name \in DOMAIN W.reg THEN [W |-> W, error |-> "ContainerAlreadyExists"]
        ELSE IF parent = None THEN [W |-> W, error |-> "ContainerDoesNotExist"]
        \* TIdMap::GetAt
        ELSE IF id \in W.ids THEN [W |-> W, error |-> "Unknown"]
        \* err: the id is put back and the record dropped
        ELSE IF fails THEN [W |-> [W EXCEPT !.puts = Append(@, id)], error |-> "Unknown"]
        ELSE [W |-> Register(W1, o), error |-> "Success"]

\* the daemon with "a", stopped, the weak container of the first client
RegistryWorld == Create(StartWorld, NameA, TRUE, FALSE).W

InitRegistry ==
    /\ ct = RegistryWorld.H
    /\ Containers = RegistryWorld.reg
    /\ ContainerIdMap = RegistryWorld.ids
    /\ ContainersMutex = NoThread
    /\ pc = [t \in Threads |-> "idle"]
    /\ LockedContainer = [t \in Clients |-> None]
    /\ WeakContainers = [t \in Clients |-> IF t = "t1" THEN {FindIn(RegistryWorld.reg, NameA)} ELSE {}]
    /\ local = [t \in Threads |-> NoLocal]
    /\ EventQueue = {}
    /\ holds = {}
    /\ lastEdges = {}
    /\ lastOp = NoOp
    /\ crashed = FALSE
    /\ waiter = NoWaiter
    /\ taskEnv = NoTaskEnv
    /\ exitInfo = NoExitInfo
    /\ client = NoClient

\* a request that ends in TContainer::Create or TContainer::Restore
RegistryAdd(t, opname, name, r) ==
    /\ Commit(r.W)
    /\ lastOp' = [Op(t, opname, name, r.error) EXCEPT !.puts = r.W.puts]
    /\ UNCHANGED <<client, taskEnv, exitInfo, waiter, ContainersMutex, pc, LockedContainer, WeakContainers, local,
                   holds, crashed>>

RegCreate(t, name) ==
    /\ pc[t] = "idle"
    /\ MutexFree
    /\ FreeSlots(ct) # {}
    /\ \E saveFails \in BOOLEAN :
          RegistryAdd(t, "Create", name, Create(World, name, FALSE, saveFails))

RegRestore(t, name) ==
    /\ pc[t] = "idle"
    /\ MutexFree
    /\ FreeSlots(ct) # {}
    /\ \E id \in 1..(MaxCt + 2), fails \in BOOLEAN :
          RegistryAdd(t, "Restore", name, Restore(World, name, id, fails))

\* the session holds the write lock on a container and destroys it
ClientDestroy(t) ==
    /\ pc[t] = "idle"
    /\ LockedContainer[t] # None
    /\ Hold(t, LockedContainer[t], FALSE) \in holds
    /\ ct[LockedContainer[t]].State # "Destroyed"
    /\ DestroyBeginStep(t, LockedContainer[t], "destroy_erase", "idle")

ClientDestroyErase(t) ==
    /\ pc[t] = "destroy_erase"
    /\ DestroyEraseStep(t, LockedContainer[t], "idle")

NextRegistry ==
    \/ \E t \in Clients, name \in Requested :
          RegCreate(t, name) \/ RegRestore(t, name) \/ WriteContainer(t, name)
    \/ \E t \in Clients :
          \/ ClientDestroy(t)
          \/ ClientDestroyErase(t)
          \/ LockWake(t)
          \/ FinishRequest(t)
          \/ CloseConnection(t)
    \/ EventDestroyWeak
    \/ DestroyWeakWake
    \/ DestroyWeakDestroy
    \/ DestroyWeakErase
    \/ DestroyWeakUnlock
    \/ RacyCheck

SpecRegistry == InitRegistry /\ [][NextRegistry]_vars

\* name is base or a name below base
RECURSIVE NameUnder(_, _)
NameUnder(name, base) ==
    \/ name = base
    \/ name # ROOT_CONTAINER /\ NameUnder(ParentName(name), base)

\* the record the thread of the last Destroy has destroyed
DestroyedBy(t) == IF t = Worker THEN local[Worker].ct ELSE LockedContainer[t]

\* C9: when Destroy(c) has returned Success, c is Destroyed, its Id was put
\* back once and is free, and no name of the registry is c or below c, so a
\* later request for c or for one of its descendants finds no container.
C9_DestroyRemovesSubtree ==
    (lastOp.op = "Destroy" /\ lastOp.error = "Success") =>
        LET c == DestroyedBy(lastOp.t)
        IN  /\ ct[c].State = "Destroyed"
            /\ lastOp.puts = <<ct[c].Id>>
            /\ \A n \in DOMAIN Containers : ~NameUnder(n, ct[c].Name)

\* C10: under every interleaving of Create, Restore and Destroy the Parent
\* of every registered container but the root is the registered record of
\* ParentName(name), and that record is not Destroyed.
C10_ParentIsRegistered ==
    \A n \in DOMAIN Containers \ {ROOT_CONTAINER} :
        /\ ParentName(n) \in DOMAIN Containers
        /\ ct[Containers[n]].Parent = Containers[ParentName(n)]
        /\ ct[ct[Containers[n]].Parent].State # "Destroyed"

---------------------------------------------------------------------------
(* The waiter of one Wait request with a timeout.  NotifyWaiters runs in    *)
(* the thread that changes the state of a container, under the write lock   *)
(* of that container and without ContainersMutex; the WaitTimeout event     *)
(* runs in the event worker under ContainersMutex.  WakeupWaiter is split   *)
(* between Client.lock() and the call of Callback.                          *)

\* the daemon of LockWorld with "c" started: a meta container
WaitWorld == Start(LockWorld, FindIn(LockWorld.reg, NameC), NoFailure).W

\* the names the Wait request lists, besides its wildcard
Waited == {NameAB}
\* the containers the sessions stop
StopRequested == {NameAB, NameC}

InitWait ==
    /\ ct = WaitWorld.H
    /\ Containers = WaitWorld.reg
    /\ ContainerIdMap = WaitWorld.ids
    /\ ContainersMutex = NoThread
    /\ pc = [t \in Threads |-> "idle"]
    /\ LockedContainer = [t \in Clients |-> None]
    /\ WeakContainers = [t \in Clients |-> {}]
    /\ local = [t \in Threads |-> NoLocal]
    /\ EventQueue = {WaitTimeoutEvent}
    /\ holds = {}
    /\ lastEdges = {}
    /\ lastOp = NoOp
    /\ crashed = FALSE
    /\ taskEnv = NoTaskEnv
    /\ exitInfo = NoExitInfo
    /\ client = NoClient
    /\ \E wildcard \in BOOLEAN :
          waiter = [NoWaiter EXCEPT !.Client = TRUE, !.Wildcard = wildcard,
                                    !.On = {FindIn(WaitWorld.reg, n) : n \in Waited}]

\* the containers whose NotifyWaiters an operation has called, lowest slot
\* first
RECURSIVE SetToSeq(_)
SetToSeq(S) ==
    IF S = {} THEN <<>>
    ELSE LET x == CHOOSE y \in S : \A z \in S : y <= z
         IN  <<x>> \o SetToSeq(S \ {x})

Notified(W) == SetToSeq({w.ct : w \in W.wake})

\* the position of a thread that has come to the end of one NotifyWaiters
AfterNotify(t) == IF Len(local[t].stack) > 1 THEN "notify" ELSE "idle"

\* the session holds the write lock on a container and stops it; the calls
\* of NotifyWaiters that SetState makes are delivered in the steps below
WaitStop(t) ==
    /\ pc[t] = "idle"
    /\ ~crashed
    /\ LockedContainer[t] # None
    /\ Hold(t, LockedContainer[t], FALSE) \in holds
    /\ \E timeout \in {0, 1}, tk \in TermOracle(ct, Subtree(ct, LockedContainer[t])) :
          LET r == Stop(World, LockedContainer[t], timeout, tk)
          IN  /\ Commit(r.W)
              /\ lastOp' = Op(t, "Stop", ct[LockedContainer[t]].Name, r.error)
              /\ local' = [local EXCEPT ![t].stack = Notified(r.W)]
              /\ pc' = [pc EXCEPT ![t] = IF Notified(r.W) = <<>> THEN "idle" ELSE "notify"]
    /\ UNCHANGED <<client, taskEnv, exitInfo, waiter, ContainersMutex, LockedContainer, WeakContainers, holds, crashed>>

\* TContainer::NotifyWaiters, the loop over Waiters: WakeupWaiter(this) up to
\* Client.lock()
NotifyExact(t) ==
    /\ pc[t] = "notify"
    /\ pc' = [pc EXCEPT ![t] = IF Head(local[t].stack) \in waiter.On /\ waiter.Client
                               THEN "ww_call" ELSE "wildcard"]
    /\ lastOp' = Op(t, "NotifyWaiters", ct[Head(local[t].stack)].Name, "Success")
    /\ UNCHANGED <<client, taskEnv, exitInfo, waiter, ct, Containers, ContainerIdMap, ContainersMutex, LockedContainer,
                   WeakContainers, local, EventQueue, holds, lastEdges, crashed>>

\* TContainerWaiter::WakeupWaiter from the call of Callback on
Woken == [waiter EXCEPT !.Calls = @ + 1, !.Client = FALSE]

WakeupCall(t) ==
    /\ pc[t] = "ww_call"
    /\ waiter' = Woken
    /\ UNCHANGED <<client, taskEnv, exitInfo>>
    /\ pc' = [pc EXCEPT ![t] = "wildcard"]
    /\ lastOp' = Op(t, "Callback", ct[Head(local[t].stack)].Name, "Success")
    /\ UNCHANGED <<ct, Containers, ContainerIdMap, ContainersMutex, LockedContainer,
                   WeakContainers, local, EventQueue, holds, lastEdges, crashed>>

\* TContainerWaiter::WakeupWildcard under WildcardLock, up to Client.lock();
\* the patterns of the waiter match every name
NotifyWildcard(t) ==
    /\ pc[t] = "wildcard"
    /\ waiter.WildcardLock = NoThread
    /\ IF waiter.Wildcard /\ waiter.Client
       THEN /\ waiter' = [waiter EXCEPT !.WildcardLock = t]
            /\ pc' = [pc EXCEPT ![t] = "ww_wild"]
            /\ UNCHANGED local
       ELSE /\ pc' = [pc EXCEPT ![t] = AfterNotify(t)]
            /\ local' = [local EXCEPT ![t].stack = Tail(@)]
            /\ UNCHANGED waiter
    /\ UNCHANGED <<client, taskEnv, exitInfo>>
    /\ lastOp' = Op(t, "WakeupWildcard", ct[Head(local[t].stack)].Name, "Success")
    /\ UNCHANGED <<ct, Containers, ContainerIdMap, ContainersMutex, LockedContainer,
                   WeakContainers, EventQueue, holds, lastEdges, crashed>>

WakeupWildCall(t) ==
    /\ pc[t] = "ww_wild"
    /\ waiter' = [Woken EXCEPT !.WildcardLock = NoThread]
    /\ UNCHANGED <<client, taskEnv, exitInfo>>
    /\ pc' = [pc EXCEPT ![t] = AfterNotify(t)]
    /\ local' = [local EXCEPT ![t].stack = Tail(@)]
    /\ lastOp' = Op(t, "Callback", ct[Head(local[t].stack)].Name, "Success")
    /\ UNCHANGED <<ct, Containers, ContainerIdMap, ContainersMutex, LockedContainer,
                   WeakContainers, EventQueue, holds, lastEdges, crashed>>

\* case WaitTimeout of TContainer::Event, under ContainersMutex:
\* WakeupWaiter(nullptr) up to Client.lock()
EventWaitTimeout ==
    /\ pc[Worker] = "idle"
    /\ MutexFree
    /\ WaitTimeoutEvent \in EventQueue
    /\ EventQueue' = EventQueue \ {WaitTimeoutEvent}
    /\ IF waiter.Client
       THEN /\ ContainersMutex' = Worker
            /\ pc' = [pc EXCEPT ![Worker] = "wt_call"]
       ELSE UNCHANGED <<ContainersMutex, pc>>
    /\ lastOp' = Op(Worker, "WaitTimeout", <<>>, "Success")
    /\ UNCHANGED <<client, taskEnv, exitInfo, waiter, ct, Containers, ContainerIdMap, LockedContainer, WeakContainers,
                   local, holds, lastEdges, crashed>>

WaitTimeoutCall ==
    /\ pc[Worker] = "wt_call"
    /\ waiter' = Woken
    /\ UNCHANGED <<client, taskEnv, exitInfo>>
    /\ ContainersMutex' = NoThread
    /\ pc' = [pc EXCEPT ![Worker] = "idle"]
    /\ lastOp' = Op(Worker, "Callback", <<>>, "Success")
    /\ UNCHANGED <<ct, Containers, ContainerIdMap, LockedContainer, WeakContainers,
                   local, EventQueue, holds, lastEdges, crashed>>

NextWait ==
    \/ \E t \in Clients, name \in StopRequested : WriteContainer(t, name)
    \/ \E t \in Clients :
          \/ WaitStop(t)
          \/ NotifyExact(t)
          \/ WakeupCall(t)
          \/ NotifyWildcard(t)
          \/ WakeupWildCall(t)
          \/ LockWake(t)
          \/ FinishRequest(t)
    \/ EventWaitTimeout
    \/ WaitTimeoutCall

SpecWait == InitWait /\ [][NextWait]_vars

\* C7: the callback of a waiter is called at most once, whichever of
\* NotifyWaiters, the wildcard wake-up and the WaitTimeout event reach it
\* and however they interleave.
C7_CallbackAtMostOnce == waiter.Calls <= 1


---------------------------------------------------------------------------
(* Respawn and aging: "a" and "a/b" run a command that exits, with respawn  *)
(* enabled and max_respawns set; a client starts and stops them, the clock  *)
(* goes on and the worker handles every event to its end.                   *)

\* TContainer::SetProperty of respawn and max_respawns
SetRespawn(W, o, max) ==
    [W EXCEPT !.H[o].ToRespawn = TRUE, !.H[o].MaxRespawns = max]

\* the daemon with "a" and "a/b", stopped, with a command and respawn
RespawnWorld(maxA, maxAB) ==
    LET W1 == Create(StartWorld, NameA, FALSE, FALSE).W
        W2 == SetProperty(W1, FindIn(W1.reg, NameA), "command", TRUE).W
        W3 == Create(W2, NameAB, FALSE, FALSE).W
        W4 == SetProperty(W3, FindIn(W3.reg, NameAB), "command", TRUE).W
        W5 == SetRespawn(W4, FindIn(W4.reg, NameA), maxA)
    IN  SetRespawn(W5, FindIn(W5.reg, NameAB), maxAB)

InitRespawn ==
    /\ InitCommon
    /\ \E maxA \in -1..MaxRespawnCount, maxAB \in 0..MaxRespawnCount :
          LET W == RespawnWorld(maxA, maxAB)
          IN  ct = W.H /\ Containers = W.reg /\ ContainerIdMap = W.ids

\* the clock reaches DeathTime + AgingTime of the dead container o
AgingTimePasses(o) ==
    /\ ct[o].State = "Dead"
    /\ ~ct[o].Aged
    /\ ct' = [ct EXCEPT ![o].Aged = TRUE]
    /\ lastEdges' = {}
    /\ UNCHANGED <<Containers, ContainerIdMap, EventQueue, pc, local>>
    /\ Sequential

\* the timer of the log rotation
RotateLogsDue ==
    /\ RotateLogsEvent \notin EventQueue
    /\ EventQueue' = EventQueue \cup {RotateLogsEvent}
    /\ lastEdges' = {}
    /\ UNCHANGED <<ct, Containers, ContainerIdMap, pc, local>>
    /\ Sequential

\* case EEventType::RotateLogs, the containers counted in RemoveDead
RemoveDead(W) == {o \in {W.reg[n] : n \in DOMAIN W.reg} : Expired(W.H, o)}

\* case EEventType::RotateLogs: an expired container is counted in the
\* statistics, the logs of a running one are rotated under its read lock;
\* no record and no entry of the registry changes
RotateLogs(W) == W

EventRotate(e) ==
    /\ e.Type = "RotateLogs"
    /\ Commit(RotateLogs([World EXCEPT !.ev = @ \ {e}]))

HandleRespawnEvent ==
    /\ pc[Worker] = "idle"
    /\ \E e \in EventQueue :
          EventExit(e) \/ EventOom(e) \/ EventRespawn(e) \/ EventRotate(e)
    /\ UNCHANGED <<pc, local>>
    /\ Sequential

NextRespawn ==
    \/ \E t \in {"t1"}, name \in Requested : StartOp(t, name) \/ StopOp(t, name)
    \/ \E o \in Objs : TaskExits(o) \/ TaskGone(o) \/ OomKill(o) \/ AgingTimePasses(o)
    \/ RotateLogsDue
    \/ HandleRespawnEvent

SpecRespawn == InitRespawn /\ [][NextRespawn]_vars

---------------------------------------------------------------------------
(* Properties of respawn and aging *)

\* the worker handles an event in this step
WorkerStep == \E e \in EventQueue : e \notin EventQueue'

\* the respawns the handling of an Exit or OOM event of o schedules, with any
\* outcome of the kills
ScheduledAtExit(o) ==
    UNION {Exit(World, o, tk).sched : tk \in TermOracle(ct, Subtree(ct, o))}

\* RespawnCount of a container with MaxRespawns = N >= 0 is at most N
RespawnCountWithinMax ==
    \A o \in Registered :
        (ct[o].ToRespawn /\ ct[o].MaxRespawns >= 0) =>
            ct[o].RespawnCount <= ct[o].MaxRespawns

\* a respawn is scheduled for a container that is Dead under a parent that
\* is Running or Meta
ScheduledOnlyWhenDead ==
    \A o \in Registered \ {RootContainer} : \A s \in ScheduledAtExit(o) :
        s.State = "Dead" /\ s.Parent \in {"Running", "Meta"}

\* a count changes by one respawn of a dead container below its maximum
CountedRespawn(o) ==
    ct'[o].RespawnCount # ct[o].RespawnCount =>
        /\ ct'[o].RespawnCount = ct[o].RespawnCount + 1
        /\ ct[o].State = "Dead"
        /\ ct[o].MaxRespawns < 0 \/ ct[o].RespawnCount < ct[o].MaxRespawns

\* a container that died with its count at the maximum is not started by
\* the worker: it stays Dead, or is stopped by the respawn of an ancestor
StaysDead(o) ==
    (/\ WorkerStep
     /\ ct[o].State = "Dead" /\ ct[o].ToRespawn
     /\ ct[o].MaxRespawns >= 0 /\ ct[o].RespawnCount = ct[o].MaxRespawns) =>
        /\ ct'[o].RespawnCount = ct[o].RespawnCount
        /\ \/ ct'[o].State = "Dead"
           \/ /\ ct'[o].State = "Stopped"
              /\ \E p \in AncestorSet(ct, o) :
                    RespawnEvent(p) \in EventQueue /\ RespawnEvent(p) \notin EventQueue'

RotateLogsOfExpired(o) ==
    /\ o \in Registered
    /\ Expired(ct, o)
    /\ RotateLogsEvent \in EventQueue
    /\ RotateLogsEvent \notin EventQueue'

\* C15: a container that is Dead past DeathTime + AgingTime is destroyed,
\* and so removed from the registry, when a RotateLogs event is handled
C15_ExpiredIsDestroyed ==
    [][\A o \in Objs :
          RotateLogsOfExpired(o) => \A n \in DOMAIN Containers' : Containers'[n] # o]_vars


---------------------------------------------------------------------------
(* Sessions of clients: identification, write access, Create and the names *)
(* a session sees.  One session at a time talks to the daemon; "a" and     *)
(* "a/b" run, their owners, levels and the namespace of "a" were set by    *)
(* their creators.                                                         *)

\* the user database: the groups of each user
UserGroups == <<{}, {PortoGroup}, {"u1-containers"}, {PortoGroup, PortoCtGroup}>>
Uids == 0..(Len(UserNames) - 1)
\* TCred::LoadGroups
LoadGroups(uid) == [Uid |-> uid, Groups |-> UserGroups[uid + 1]]

\* the values of the property enable_porto
EnablePorto == {EAccessLevel("None"), EAccessLevel("ReadOnly"), EAccessLevel("ChildOnly"),
                EAccessLevel("Normal")}
\* the values of the property porto_namespace of "a": none, the default
\* with default_porto_namespace, and a prefix that ends inside a component
PortoNamespaces == {<<>>, NameA \o <<"/">>, NameA}

\* the names a request carries
RelativeNames ==
    {ROOT_CONTAINER, SELF_CONTAINER, DOT_CONTAINER, NameA, <<"b">>,
     SELF_CONTAINER \o <<"/", "b">>, ROOT_PORTO_NAMESPACE \o <<"a", "b">>}
\* the names a Create request carries: "/", "c" and "a/c"
CreateNames == {ROOT_CONTAINER, NameC, NameA \o <<"/">> \o NameC}

ClientWorld(ownerA, ownerAB, levelA, ns) ==
    LET W1 == Create(StartWorld, NameA, FALSE, FALSE).W
        a == FindIn(W1.reg, NameA)
        W2 == SetProperty(W1, a, "command", TRUE).W
        W3 == [W2 EXCEPT !.H[a].OwnerCred = LoadGroups(ownerA),
                         !.H[a].AccessLevel = levelA,
                         !.H[a].NsName = ns]
        W4 == Create(W3, NameAB, FALSE, FALSE).W
        ab == FindIn(W4.reg, NameAB)
        W5 == SetProperty(W4, ab, "command", TRUE).W
        W6 == [W5 EXCEPT !.H[ab].OwnerCred = LoadGroups(ownerAB)]
    IN  Start(W6, ab, NoFailure).W

InitClient ==
    /\ InitCommon
    /\ \E ownerA \in Uids, levelA \in EnablePorto, ns \in PortoNamespaces :
          \* a namespace is given to the container of u1 with full access
          /\ ns # <<>> => ownerA = 1 /\ levelA = EAccessLevel("Normal")
          /\ LET W == ClientWorld(ownerA, 1, levelA, ns)
             IN  ct = [W.H EXCEPT ![RootContainer].OwnerCred = LoadGroups(0)]
                 /\ Containers = W.reg /\ ContainerIdMap = W.ids

\* the peers of the socket: a process of any user outside the containers,
\* in a container with a freezer cgroup the task of its owner, and a
\* process that is gone when its cgroup is looked up
Peers ==
    {[Pid |-> 1, Uid |-> uid, Gid |-> uid, Groups |-> UserGroups[uid + 1],
      Ct |-> RootContainer] :
        uid \in Uids}
    \cup {[Pid |-> 1, Uid |-> ct[o].OwnerCred.Uid, Gid |-> ct[o].OwnerCred.Uid,
           Groups |-> ct[o].OwnerCred.Groups, Ct |-> o] : o \in {x \in Objs \ {RootContainer} :
                                 ct[x].State # "Free" /\ "cgroup" \in ct[x].Res}}
    \cup {[Pid |-> 1, Uid |-> 0, Gid |-> 0, Groups |-> {}, Ct |-> None]}

\* TClient::AcceptConnection: accept4 and IdentifyClient(true); a failure
\* closes the socket
AcceptConnection(t, peer) ==
    /\ pc[t] = "idle"
    /\ MutexFree
    /\ ~client.Connected
    /\ LET r == IdentifyClient(ct, NoClient, peer, TRUE)
       IN  client' = [r.client EXCEPT !.Connected = (r.error = "Success"),
                                      !.op = "AcceptConnection", !.target = peer.Ct,
                                      !.error = r.error]
    /\ UNCHANGED <<waiter, taskEnv, exitInfo, ct, Containers, ContainerIdMap, ContainersMutex, pc,
                   LockedContainer, WeakContainers, local, EventQueue, holds,
                   lastEdges, lastOp, crashed>>

\* TClient::~TClient with nothing locked and no weak container
SessionClose(t) ==
    /\ pc[t] = "idle"
    /\ client.Connected
    /\ LockedContainer[t] = None
    /\ client' = NoClient
    /\ UNCHANGED <<waiter, taskEnv, exitInfo, ct, Containers, ContainerIdMap, ContainersMutex, pc,
                   LockedContainer, WeakContainers, local, EventQueue, holds,
                   lastEdges, lastOp, crashed>>

\* a request of the session that calls TClient::WriteContainer
WriteRequest(t, relative_name, child) ==
    /\ pc[t] = "idle"
    /\ MutexFree
    /\ client.Connected
    /\ LET r == WriteAccess(ct, Containers, client, relative_name, child)
       IN  /\ IF r.error = "Success"
              THEN IF ReleaseAsserts(t) THEN ~LockBusy(Released(t), r.ct, FALSE) ELSE FALSE
              ELSE TRUE
           /\ client' = [client EXCEPT !.op = "WriteContainer", !.rel = <<>>,
                                       !.child = child, !.target = r.ct,
                                       !.name = r.name, !.error = r.error]
           /\ IF r.error = "Success"
              THEN /\ ct' = LockTake(Released(t), r.ct, FALSE)
                   /\ holds' = (holds \ HoldOf(t)) \cup {Hold(t, r.ct, FALSE)}
                   /\ LockedContainer' = [LockedContainer EXCEPT ![t] = r.ct]
              ELSE UNCHANGED <<ct, holds, LockedContainer>>
    /\ UNCHANGED <<waiter, taskEnv, exitInfo, Containers, ContainerIdMap, ContainersMutex, pc,
                   WeakContainers, local, EventQueue, lastEdges, lastOp, crashed>>

\* a request of the session that resolves a name and calls TContainer::Create
CreateRequest(t, relative_name) ==
    /\ pc[t] = "idle"
    /\ MutexFree
    /\ client.Connected
    /\ LockedContainer[t] = None
    /\ FreeSlots(ct) # {}
    /\ LET n == ResolveName(ct, client, relative_name)
           r == IF n.error # "Success" THEN [W |-> World, error |-> n.error]
                ELSE CreateBy(World, client, n.name, FALSE)
           parent == FindIn(Containers, ParentName(n.name))
       IN  /\ Commit(r.W)
           /\ client' = [client EXCEPT !.op = "Create", !.rel = relative_name,
                                       !.child = TRUE, !.target = parent,
                                       !.name = n.name, !.error = r.error]
    /\ UNCHANGED <<waiter, taskEnv, exitInfo, ContainersMutex, pc, LockedContainer, WeakContainers, local,
                   holds, lastOp, crashed>>

\* TContainerWaiter::WakeupWaiter for a waiter of the session: the name of
\* who as ComposeName gives it to the callback
WakeupCompose(who) ==
    /\ client.Connected
    /\ ct[who].State # "Free"
    /\ LET r == ComposeName(ct, client, ct[who].Name)
       IN  client' = [client EXCEPT !.op = "Wakeup", !.rel = <<>>, !.child = FALSE,
                                    !.target = who, !.name = r.name, !.error = r.error]
    /\ UNCHANGED <<waiter, taskEnv, exitInfo, ct, Containers, ContainerIdMap, ContainersMutex, pc,
                   LockedContainer, WeakContainers, local, EventQueue, holds,
                   lastEdges, lastOp, crashed>>

Session == "t1"

NextClient ==
    \/ \E peer \in Peers : AcceptConnection(Session, peer)
    \/ SessionClose(Session)
    \/ \E rel \in RelativeNames, child \in BOOLEAN : WriteRequest(Session, rel, child)
    \/ \E rel \in CreateNames : CreateRequest(Session, rel)
    \/ FinishRequest(Session)
    \/ \E who \in Objs : WakeupCompose(who)

SpecClient == InitClient /\ [][NextClient]_vars


---------------------------------------------------------------------------
(* Properties of the sessions *)

\* the rules of the owner: the caller is SuperUser, has the uid of the
\* owner, or the owner is in porto-containers or in <user>-containers
OwnerRule(cl, owner) ==
    \/ cl.AccessLevel >= EAccessLevel("SuperUser")
    \/ cl.Cred.Uid = owner.Uid
    \/ PortoCtGroup \in owner.Groups
    \/ UserCtGroup(cl.Cred) \in owner.Groups

\* the nearest container with the level ChildOnly from the container of the
\* session upwards
ChildOnlyBases(cl) ==
    {b \in AncestorSet(ct, cl.ClientContainer) \cup {cl.ClientContainer} :
        /\ ct[b].AccessLevel = EAccessLevel("ChildOnly")
        /\ \A x \in AncestorSet(ct, cl.ClientContainer) \cup {cl.ClientContainer} :
              ct[x].AccessLevel = EAccessLevel("ChildOnly") /\ x # b
                 => x \in AncestorSet(ct, b)}

\* the rules as stated: the level, the root only with the child flag, a
\* rule of the owner, and at ChildOnly a descendant of the base
StatedRules(cl, o, child) ==
    /\ cl.AccessLevel >= EAccessLevel("ChildOnly")
    /\ IsRoot(ct, o) => child
    /\ OwnerRule(cl, ct[o].OwnerCred)
    /\ cl.AccessLevel = EAccessLevel("ChildOnly")
          => \E b \in ChildOnlyBases(cl) : b \in AncestorSet(ct, o)

\* the rules with the two exceptions of a create: no rule of the owner for
\* the root, and at ChildOnly the base itself
CreateRules(cl, o, child) ==
    /\ cl.AccessLevel >= EAccessLevel("ChildOnly")
    /\ IsRoot(ct, o) => child
    /\ (child /\ IsRoot(ct, o)) \/ OwnerRule(cl, ct[o].OwnerCred)
    /\ cl.AccessLevel = EAccessLevel("ChildOnly")
          => \E b \in ChildOnlyBases(cl) : (child /\ b = o) \/ b \in AncestorSet(ct, o)

\* the last request was WriteContainer for a container that exists
WroteTo(o) == client.op = "WriteContainer" /\ client.target = o /\ o # None

\* a step of WriteContainer that is refused
WriteRefused ==
    client' # client /\ client'.op = "WriteContainer" /\ client'.error # "Success"

\* a step of WriteContainer that succeeds
WriteGranted ==
    client' # client /\ client'.op = "WriteContainer" /\ client'.error = "Success"

LivesInUAtNormal ==
    /\ client.Connected
    /\ client.ClientContainer # None
    /\ ct[client.ClientContainer].Name = NameA
    /\ ct[client.ClientContainer].AccessLevel = EAccessLevel("Normal")
    /\ client.AccessLevel = EAccessLevel("Normal")

\* C18: for a session that lives in "a" with the level Normal, Create of
\* "a/c" succeeds, Create of the sibling "c" fails with Permission and
\* Create of "/" fails with Permission
C18_CreateFromWithinContainer ==
    LivesInUAtNormal /\ client.op = "Create" =>
        /\ client.rel = NameA \o <<"/">> \o NameC => client.error = "Success"
        /\ client.rel = NameC => client.error = "Permission"
        /\ client.rel = ROOT_CONTAINER => client.error = "Permission"


\* name is the namespace ns itself or lies below it, where ns ends at the
\* end of a component of name
UnderNamespace(name, ns) ==
    LET prefix == IF ns # <<>> /\ ns[Len(ns)] = "/" THEN SubSeq(ns, 1, Len(ns) - 1) ELSE ns
    IN  ns = <<>> \/ name = prefix \/ StringStartsWith(name, prefix \o <<"/">>)

\* what the session may name with relative_name: the root, its own
\* container or a path below it with "self", the parent of the namespace
\* with ".", and the names under its namespace
MayName(cl, relative_name, name) ==
    LET ns == GetPortoNamespace(ct, cl.ClientContainer)
        own == ct[cl.ClientContainer].Name
    IN  \/ name = ROOT_CONTAINER
        \/ relative_name = SELF_CONTAINER /\ name = own
        \/ /\ StringStartsWith(relative_name, SELF_CONTAINER \o <<"/">>)
           /\ \/ name = own \o Substr(relative_name, Len(SELF_CONTAINER))
              \/ own = ROOT_CONTAINER /\ name = Substr(relative_name, Len(SELF_CONTAINER))
        \/ relative_name = DOT_CONTAINER /\ name = ParentName(ns)
        \/ UnderNamespace(name, ns)

\* C19: a session cannot name a container outside its porto namespace:
\* ResolveName fails with Permission or yields the root, the own container
\* or a path below it (self), the parent of the namespace (.), or a name
\* under the namespace at a boundary of components; ComposeName gives a name
\* only for the root and the containers under the namespace at a boundary
\* of components, and Permission for the others
C19_NamesStayInNamespace ==
    client.Connected =>
        /\ \A rel \in RelativeNames :
              LET r == ResolveName(ct, client, rel)
              IN  r.error = "Permission" \/ (r.error = "Success" /\ MayName(client, rel, r.name))
        /\ \A n \in DOMAIN Containers :
              LET r == ComposeName(ct, client, n)
              IN  IF n = ROOT_CONTAINER
                     \/ UnderNamespace(n, GetPortoNamespace(ct, client.ClientContainer))
                  THEN r.error \in {"Success", "Permission"}
                  ELSE r.error = "Permission"


\* the least AccessLevel on the chain from o to the root
LeastOnChain(o) ==
    CHOOSE l \in AccessLevels :
        /\ \E x \in AncestorSet(ct, o) \cup {o} : ct[x].AccessLevel = l
        /\ \A x \in AncestorSet(ct, o) \cup {o} : ct[x].AccessLevel >= l

\* the adjustment as stated: a root user at Normal becomes SuperUser, a
\* member of the group porto who is not root is held at ReadOnly
StatedAdjustment(level, cred) ==
    IF cred.Uid = 0
    THEN IF level = EAccessLevel("Normal") THEN EAccessLevel("SuperUser") ELSE level
    ELSE IF PortoGroup \in cred.Groups /\ level >= EAccessLevel("ReadOnly")
    THEN EAccessLevel("ReadOnly")
    ELSE level

\* the adjustment with the group the other way round: who is neither root
\* nor a member of the group porto is held at ReadOnly
MemberAdjustment(level, cred) ==
    IF cred.Uid = 0
    THEN IF level = EAccessLevel("Normal") THEN EAccessLevel("SuperUser") ELSE level
    ELSE IF PortoGroup \notin cred.Groups /\ level >= EAccessLevel("ReadOnly")
    THEN EAccessLevel("ReadOnly")
    ELSE level

\* an identification that met the level None on the chain of the peer has
\* failed with Permission and left the session closed
NoneIsRefused ==
    client.op = "AcceptConnection" /\ client.target # None
       /\ LeastOnChain(client.target) = EAccessLevel("None")
       => client.error = "Permission" /\ ~client.Connected

\* a request is served for an identified session only
ServedOnlyIdentified ==
    client' # client /\ client'.op \in {"WriteContainer", "Create", "Wakeup"}
       => /\ client.Connected
          /\ LeastOnChain(client.ClientContainer) # EAccessLevel("None")

---------------------------------------------------------------------------
(* The access levels along the tree: Create, Start, Stop and the property  *)
(* enable_porto, each request run to its end                               *)

\* TContainer::SetProperty of enable_porto: the level is assigned to the
\* container, the root is read only
SetAccessLevel(W, o, level) ==
    IF IsRoot(W.H, o) THEN [W |-> W, error |-> "Permission"]
    ELSE [W |-> [W EXCEPT !.H[o].AccessLevel = level], error |-> "Success"]

SetAccessLevelOp(t, name) ==
    /\ pc[t] = "idle"
    /\ Find(name) # None
    /\ \E level \in EnablePorto :
          LET r == SetAccessLevel(World, Find(name), level)
          IN  Commit(r.W)
    /\ UNCHANGED <<pc, local>>
    /\ Sequential

NextAccess ==
    \E t \in {"t1"}, name \in Requested :
        \/ CreateOp(t, name)
        \/ SetPropertyOp(t, name, {"command"})
        \/ SetAccessLevelOp(t, name)
        \/ StartOp(t, name)
        \/ StopOp(t, name)

SpecAccess == Init /\ [][NextAccess]_vars

\* C21: the level of every container but the root is at most the level of
\* its parent, unless an ancestor of it has the level ChildOnly
C21_LevelAtMostParent ==
    \A c \in Registered :
        ct[c].Parent # None =>
            \/ ct[c].AccessLevel <= ct[ct[c].Parent].AccessLevel
            \/ \E p \in AncestorSet(ct, c) : ct[p].AccessLevel = EAccessLevel("ChildOnly")


---------------------------------------------------------------------------
(* The identity of a session over its requests: the socket may be used by  *)
(* another process, and the container of the session may be paused and    *)
(* resumed between two requests                                            *)

\* the processes that may hold the socket: two pids, users and groups,
\* outside the containers, in a container with a freezer cgroup, or gone
RequestPeers ==
    {[Pid |-> pid, Uid |-> id[1], Gid |-> id[2], Groups |-> UserGroups[id[1] + 1], Ct |-> o] :
        pid \in {1, 2}, id \in {<<1, 1>>, <<1, 3>>, <<3, 3>>},
        o \in {x \in Objs : ct[x].State # "Free" /\ "cgroup" \in ct[x].Res} \cup {None}}

InitIdentify ==
    /\ InitCommon
    /\ \E levelA \in EnablePorto :
          LET W == ClientWorld(1, 1, levelA, <<>>)
          IN  ct = [W.H EXCEPT ![RootContainer].OwnerCred = LoadGroups(0)]
              /\ Containers = W.reg /\ ContainerIdMap = W.ids

\* a request after the first: IdentifyClient(false), and the request is
\* served when it succeeds
RequestBy(t, peer) ==
    /\ pc[t] = "idle"
    /\ MutexFree
    /\ client.Connected
    /\ LET r == IdentifyClient(ct, client, peer, FALSE)
       IN  client' = [r.client EXCEPT !.op = "Request", !.peer = peer, !.target = None,
                                      !.error = r.error]
    /\ UNCHANGED <<waiter, taskEnv, exitInfo, ct, Containers, ContainerIdMap, ContainersMutex, pc,
                   LockedContainer, WeakContainers, local, EventQueue, holds,
                   lastEdges, lastOp, crashed>>

NextIdentify ==
    \/ \E peer \in RequestPeers : AcceptConnection(Session, peer)
    \/ \E peer \in RequestPeers : RequestBy(Session, peer)
    \/ SessionClose(Session)
    \/ \E name \in Requested : PauseOp("t2", name) \/ ResumeOp("t2", name)

SpecIdentify == InitIdentify /\ [][NextIdentify]_vars

\* what identifies the session: the peer it recorded, its container, its
\* credentials and its level
Identity(cl) ==
    <<cl.Pid, cl.TaskCred, cl.ClientContainer, cl.Cred, cl.AccessLevel>>

\* a step that handles a request after the first
RequestStep == client' # client /\ client'.op = "Request"

\* the recorded identity fits the peer of the request in pid, uid and gid
\* and the recorded container is Running or Meta
Unchanged(peer) ==
    /\ peer.Pid = client.Pid
    /\ peer.Uid = client.TaskCred.Uid /\ peer.Gid = client.TaskCred.Gid
    /\ client.ClientContainer # None
    /\ ct[client.ClientContainer].State \in {"Running", "Meta"}

\* C22: on a request after the first the recorded identity is kept when
\* the pid, uid and gid of the peer are the recorded ones and the recorded
\* container is Running or Meta; in every other case the identification is
\* done again in full, and a request is served only for a container that
\* is Running or Meta when it is identified
C22_IdentityReusedOnlyIfUnchanged ==
    [][RequestStep =>
          /\ IF Unchanged(client'.peer)
             THEN Identity(client') = Identity(client) /\ client'.error = "Success"
             ELSE LET full == IdentifyClient(ct, client, client'.peer, TRUE)
                  IN  Identity(client') = Identity(full.client)
                      /\ client'.error = full.error
          /\ client'.error = "Success" =>
                /\ client'.ClientContainer # None
                /\ ct[client'.ClientContainer].State \in {"Running", "Meta"}
                /\ ~Unchanged(client'.peer) => client'.ClientContainer = client'.peer.Ct]_vars

\* the socket went to a process in another container and the session was
\* identified again
C22_Witness ==
    /\ client.op = "Request" /\ client.error = "Success"
    /\ client.peer.Pid = 2
    /\ client.ClientContainer = client.peer.Ct
    /\ ct[client.ClientContainer].Name = NameAB


---------------------------------------------------------------------------
(* The request pump of a session: frames arrive in pieces, a request is    *)
(* handed out when its frame is complete, and the response is written back *)
(* in pieces.  A byte is the varint of a length (1, 2, ...) or a byte of a *)
(* message (0).  Buffer is the bytes of the request received so far, the   *)
(* first Offset bytes of the buffer; the bytes of a response are not kept. *)

\* config().daemon().max_msg_len()
MaxMsgLen == 2
\* the bytes a peer leaves unread in the socket
MaxSock == 4

\* CodedOutputStream::VarintSize32 of the lengths of the model
VarintSize32(length) == 1
\* a frame: the varint of the length and the message
Frame(length) == <<length>> \o [i \in 1..length |-> 0]

\* the results of recv and send with MSG_DONTWAIT
EAGAIN == -1
ECONNRESET == -2

\* ReadRequest that reads on while a request is processed
NotProcessing(cl) == FALSE
\* if (Processing)
IsProcessing(cl) == cl.Processing

\* TClient::ReadRequest; len is what recv returns.  request: a request was
\* parsed and is handed to the dispatcher
ReadRequest(cl, len) ==
    LET c1 == IF len > 0
              THEN [cl EXCEPT !.Buffer = @ \o SubSeq(cl.sock, 1, len),
                              !.sock = SubSeq(@, len + 1, Len(@)),
                              !.Offset = @ + len]
              ELSE cl
        length == c1.Buffer[1]
        c2 == IF c1.Length = 0
              THEN [c1 EXCEPT !.Length = length + VarintSize32(length)]
              ELSE c1
    IN  IF IsProcessing(cl) THEN [client |-> cl, error |-> "Success", request |-> FALSE]
        ELSE IF ~cl.Connected THEN [client |-> cl, error |-> "Unknown", request |-> FALSE]
        ELSE IF len = 0 \/ len = ECONNRESET
        THEN [client |-> cl, error |-> "Unknown", request |-> FALSE]
        ELSE IF c1.Length # 0 /\ c1.Offset < c1.Length
        THEN [client |-> c1, error |-> "Queued", request |-> FALSE]
        \* ReadVarint32
        ELSE IF c1.Offset = 0 THEN [client |-> c1, error |-> "Queued", request |-> FALSE]
        ELSE IF c1.Length = 0 /\ length > MaxMsgLen
        THEN [client |-> c1, error |-> "Unknown", request |-> FALSE]
        ELSE IF c2.Offset < c2.Length
        THEN [client |-> c2, error |-> "Queued", request |-> FALSE]
        \* ParseFromCodedStream reads to the end of the input: "cannot parse
        \* request" or "garbage after request"
        ELSE IF c2.Offset > c2.Length
        THEN [client |-> c2, error |-> "Unknown", request |-> FALSE]
        ELSE [client |-> [c2 EXCEPT !.Processing = TRUE, !.Input = FALSE],
              error |-> "Success", request |-> TRUE]

\* TClient::SendResponse; len is what send returns
SendResponse(cl, first, len) ==
    LET c1 == IF len > 0 THEN [cl EXCEPT !.Offset = @ + len] ELSE cl
    IN  IF ~cl.Connected THEN [client |-> cl, error |-> "Success"]
        ELSE IF len = 0 /\ ~first THEN [client |-> cl, error |-> "Unknown"]
        ELSE IF len = ECONNRESET THEN [client |-> cl, error |-> "Unknown"]
        ELSE IF c1.Offset >= c1.Length
        THEN [client |-> [c1 EXCEPT !.Length = 0, !.Offset = 0, !.Processing = FALSE,
                                    !.Input = TRUE, !.Output = FALSE, !.Buffer = <<>>],
              error |-> "Success"]
        ELSE IF first THEN [client |-> [c1 EXCEPT !.Output = TRUE], error |-> "Success"]
        ELSE [client |-> c1, error |-> "Success"]

\* TClient::QueueResponse for a response of length bytes
QueueResponse(cl, length, len) ==
    SendResponse([cl EXCEPT !.Offset = 0, !.Length = VarintSize32(length) + length,
                            !.Buffer = <<>>],
                 TRUE, len)

\* a session after AcceptConnection, watched for input
InitPump ==
    /\ ct = [x \in Objs |-> IF x = RootContainer THEN RootCt ELSE FreeCt]
    /\ Containers = [n \in {ROOT_CONTAINER} |-> RootContainer]
    /\ ContainerIdMap = {1}
    /\ ContainersMutex = NoThread
    /\ pc = [t \in Threads |-> "idle"]
    /\ LockedContainer = [t \in Clients |-> None]
    /\ WeakContainers = [t \in Clients |-> {}]
    /\ local = [t \in Threads |-> NoLocal]
    /\ EventQueue = {}
    /\ holds = {}
    /\ lastEdges = {}
    /\ lastOp = NoOp
    /\ crashed = FALSE
    /\ waiter = NoWaiter
    /\ taskEnv = NoTaskEnv
    /\ exitInfo = NoExitInfo
    /\ client = [NoClient EXCEPT !.Connected = TRUE, !.Input = TRUE,
                                 !.ClientContainer = RootContainer,
                                 !.AccessLevel = EAccessLevel("SuperUser")]

PumpUnchanged ==
    UNCHANGED <<waiter, taskEnv, exitInfo, ct, Containers, ContainerIdMap, ContainersMutex, pc,
                LockedContainer, WeakContainers, local, EventQueue, holds,
                lastEdges, lastOp, crashed>>

\* the peer writes a frame into the socket
PeerSends(length) ==
    /\ client.Connected
    /\ Len(client.sock) + Len(Frame(length)) <= MaxSock
    /\ client' = [client EXCEPT !.sock = @ \o Frame(length), !.op = "PeerSends"]
    /\ PumpUnchanged

\* what recv can return: some of the bytes of the socket, or without any
\* EAGAIN, zero or an error
RecvResults(cl) ==
    IF cl.sock = <<>> THEN {EAGAIN, 0, ECONNRESET} ELSE 1..Len(cl.sock)
\* what send can return for the rest of the response
SendResults(cl) == {EAGAIN, 0, ECONNRESET} \cup 1..(cl.Length - cl.Offset)

\* the caller of ReadRequest and SendResponse closes the connection after
\* an error
CloseOnError(cl, error) ==
    IF error \in {"Success", "Queued"} THEN cl
    ELSE [cl EXCEPT !.Connected = FALSE, !.Input = FALSE, !.Output = FALSE]

\* the socket is readable, or ReadRequest is called before the response
\* ("Client request before response")
ReadEvent ==
    /\ client.Connected
    /\ client.Input \/ client.Processing
    /\ \E len \in RecvResults(client) :
          LET r == ReadRequest(client, len)
          IN  client' = [CloseOnError(r.client, r.error) EXCEPT
                            !.op = "ReadRequest", !.error = r.error,
                            !.inflight = IF r.request THEN @ + 1 ELSE @]
    /\ PumpUnchanged

\* the dispatcher answers the request: QueueResponse
ResponseQueued(length) ==
    /\ client.Connected
    /\ client.Processing /\ client.Buffer # <<>>
    /\ \E len \in SendResults([client EXCEPT !.Offset = 0,
                                              !.Length = VarintSize32(length) + length]) :
          LET r == QueueResponse(client, length, len)
          IN  client' = [CloseOnError(r.client, r.error) EXCEPT
                            !.op = "QueueResponse", !.error = r.error,
                            !.inflight = IF r.client.Processing THEN @ ELSE @ - 1]
    /\ PumpUnchanged

\* the socket is writable: SendResponse(false)
WriteEvent ==
    /\ client.Connected
    /\ client.Output
    /\ \E len \in SendResults(client) :
          LET r == SendResponse(client, FALSE, len)
          IN  client' = [CloseOnError(r.client, r.error) EXCEPT
                            !.op = "SendResponse", !.error = r.error,
                            !.inflight = IF r.client.Processing THEN @ ELSE @ - 1]
    /\ PumpUnchanged

NextPump ==
    \/ \E length \in 1..(MaxMsgLen + 1) : PeerSends(length)
    \/ ReadEvent
    \/ \E length \in 1..MaxMsgLen : ResponseQueued(length)
    \/ WriteEvent

SpecPump == InitPump /\ [][NextPump]_vars

\* a step of ReadRequest that is called while a request is processed
ReadWhileProcessing ==
    client.Processing /\ client'.op = "ReadRequest"

\* a step that writes the last byte of a response
ResponseWritten ==
    /\ client'.op \in {"QueueResponse", "SendResponse"} /\ client'.error = "Success"
    /\ client.inflight = 1 /\ client'.inflight = 0

\* C23: at most one request of a session is in flight: from the parsed
\* request (Processing, input not watched) to the last byte of its response
\* (Offset = Length = 0, not Processing, input watched) no other request is
\* parsed or handed out, and ReadRequest called while Processing leaves the
\* buffer, Offset and Length as they are
C23_OneRequestInFlight ==
    /\ [](/\ client.inflight \in {0, 1}
          /\ client.inflight = 1 <=> client.Processing
          /\ client.Processing => ~client.Input)
    /\ [][/\ ReadWhileProcessing =>
                /\ client'.Buffer = client.Buffer /\ client'.sock = client.sock
                /\ client'.Offset = client.Offset /\ client'.Length = client.Length
                /\ client'.inflight = client.inflight
          /\ client'.inflight > client.inflight =>
                client.inflight = 0 /\ client'.Processing /\ ~client'.Input
          /\ ResponseWritten =>
                /\ client'.Offset = 0 /\ client'.Length = 0
                /\ ~client'.Processing /\ client'.Input]_vars

\* a second frame waits in the socket while the response of the first is
\* half written
C23_Witness ==
    /\ client.Processing /\ client.inflight = 1
    /\ client.Output /\ client.Offset > 0 /\ client.Offset < client.Length
    /\ client.sock # <<>>


---------------------------------------------------------------------------
(* The requests of the sessions: between StartRequest and FinishRequest a  *)
(* request calls ReadContainer and WriteContainer any number of times.     *)

InRequest(t) == local[t].CurrentClient = t

NextSession ==
    \* the dispatcher starts the next request of a thread after FinishRequest
    \/ \E t \in Clients : ~InRequest(t) /\ StartRequest(t)
    \/ \E t \in Clients, name \in Names, try_lock \in BOOLEAN :
          InRequest(t) /\ ReadContainer(t, name, try_lock)
    \/ \E t \in Clients, name \in Names :
          InRequest(t) /\ name # ROOT_CONTAINER /\ WriteContainer(t, name)
    \/ \E t \in Clients : LockWake(t)
    \/ \E t \in Clients : InRequest(t) /\ FinishRequest(t)

SpecSession == InitLock /\ [][NextSession]_vars

\* the Locked counter the locks held make of a container: -1 under a write
\* lock, else one for each lock on it or below it
LockedByHolds(x) ==
    IF \E h \in holds : h.ct = x /\ ~h.shared THEN -1
    ELSE Cardinality({h \in holds : h.ct = x \/ x \in AncestorSet(ct, h.ct)})

FinishRequestOf(t) == lastOp'.t = t /\ lastOp'.op = "FinishRequest" /\ lastOp' # lastOp

\* C24: a session holds at most one container lock, the one LockedContainer
\* names; the Locked counters are those of the locks held, so that after
\* FinishRequest, when the session holds none, nothing of what its request
\* added to a counter is left; and FinishRequest clears the thread pointer
C24_OneLockPerSession ==
    /\ [](/\ ~crashed
          /\ \A t \in Clients :
                /\ Cardinality(HoldOf(t)) <= 1
                /\ \A h \in HoldOf(t) : LockedContainer[t] = h.ct
                /\ HoldOf(t) = {} => LockedContainer[t] = None
                /\ ~InRequest(t) => HoldOf(t) = {} /\ local[t].CurrentClient = NoThread
          /\ \A x \in Objs : ct[x].Locked = LockedByHolds(x))
    /\ [][\A t \in Clients :
            FinishRequestOf(t) =>
               /\ HoldOf(t)' = {} /\ LockedContainer'[t] = None
               /\ local'[t].CurrentClient = NoThread
               /\ holds' = holds \ HoldOf(t)]_vars

\* a request of t1 has finished while t2 holds the read lock on a/b: the
\* counter of a is the one of the lock of t2
C24_Witness ==
    /\ lastOp = Op("t1", "FinishRequest", <<>>, "Success")
    /\ holds = {Hold("t2", Find(NameAB), TRUE)}
    /\ ct[Find(NameA)].Locked = 1

\* a ReadContainer or WriteContainer call that returns an error
LockCallFails ==
    /\ lastOp'.op \in {"ReadContainer", "WriteContainer"}
    /\ lastOp'.error \in {"Busy", "ContainerDoesNotExist", "Permission"}

\* C28: a lock operation that does not complete changes nothing: after a
\* ReadContainer or WriteContainer call that fails (Busy from a try-lock,
\* ContainerDoesNotExist) the Locked counters of all containers and the
\* lock the session held before the call are as they were
C28_FailedLockChangesNothing ==
    [][LockCallFails =>
          /\ \A x \in Objs : ct'[x].Locked = ct[x].Locked
          /\ LockedContainer' = LockedContainer
          /\ holds' = holds]_vars

---------------------------------------------------------------------------
(* Exit events against the requests of a client: the task of a container   *)
(* exits and, before the worker handles the event, the container is        *)
(* stopped or started again.                                               *)

\* "a" and "a/b", stopped, each with a command
ExitWorld ==
    LET W1 == Create(StartWorld, NameA, FALSE, FALSE).W
        W2 == SetProperty(W1, FindIn(W1.reg, NameA), "command", TRUE).W
        W3 == Create(W2, NameAB, FALSE, FALSE).W
    IN  SetProperty(W3, FindIn(W3.reg, NameAB), "command", TRUE).W

InitExit ==
    /\ InitCommon
    /\ ct = ExitWorld.H /\ Containers = ExitWorld.reg /\ ContainerIdMap = ExitWorld.ids

\* what is left in lastOp of the step the worker made
Handled(e) ==
    [Op(Worker, e.Type, <<>>, IF e.Type = "Exit" /\ ExitTarget(e.Pid) = None
                              THEN "NoTarget" ELSE "Success")
        EXCEPT !.puts = <<e.Pid>>]

\* TContainer::Event for an Exit or OOM event.  After case Exit the handler
\* runs into case WaitTimeout: the Waiter of an Exit event is empty and
\* nothing is woken
HandleExitEvent ==
    /\ pc[Worker] = "idle"
    /\ \E e \in EventQueue :
          /\ EventExit(e) \/ EventOom(e)
          /\ lastOp' = Handled(e)
    /\ UNCHANGED <<pc, local, ContainersMutex, LockedContainer, WeakContainers, holds,
                   crashed, waiter, client, taskEnv, exitInfo>>

NextExit ==
    \/ \E t \in {"t1"}, name \in Requested :
          StartOp(t, name) \/ StopOp(t, name)
    \/ \E o \in Objs : TaskExits(o) \/ OomKill(o)
    \/ HandleExitEvent

SpecExit == InitExit /\ [][NextExit]_vars

\* the worker takes the Exit event e from the queue while no registered
\* container waits for its pid
UnmatchedExitHandled(e) ==
    /\ e.Type = "Exit" /\ e \notin EventQueue'
    /\ \A x \in Registered : ct[x].WaitPid # e.Pid

\* C27: handling an Exit event whose pid is the wait-task pid of no
\* container changes no container (state, exit status, death time, pids,
\* Locked) and nothing of the registry; the event is taken from the queue
\* and that is all
C27_UnmatchedExitIsAbsorbed ==
    [][\A e \in EventQueue :
          UnmatchedExitHandled(e) =>
             /\ ct' = ct
             /\ Containers' = Containers /\ ContainerIdMap' = ContainerIdMap
             /\ holds' = holds /\ LockedContainer' = LockedContainer
             /\ waiter' = waiter
             /\ EventQueue' = EventQueue \ {e}]_vars

\* the task of "a/b" exited, "a/b" was stopped and started again with a new
\* task, and then the worker handled the Exit event of the old pid
C27_Witness ==
    /\ lastOp.op = "Exit" /\ lastOp.error = "NoTarget"
    /\ ct[Find(NameAB)].State = "Running"
    /\ ct[Find(NameAB)].WaitPid \notin {0, lastOp.puts[1]}
    /\ ct[Find(NameAB)].Tasks >= 1

---------------------------------------------------------------------------
(* A waiter without a timeout against the requests of a client and the     *)
(* exits of the tasks, every operation run to its end: the NotifyWaiters   *)
(* calls of an operation reach the waiter registered on their container.   *)

\* "a" and "a/b", stopped; "a/b" has a command, "a" has one or is a meta
\* container
NotifyWorld(meta) ==
    IF meta THEN [ExitWorld EXCEPT !.H[FindIn(ExitWorld.reg, NameA)].Command = FALSE]
    ELSE ExitWorld

InitNotify ==
    /\ InitCommon
    /\ \E meta \in BOOLEAN :
          LET W == NotifyWorld(meta)
          IN  ct = W.H /\ Containers = W.reg /\ ContainerIdMap = W.ids

\* a Wait request for one container: TContainer::AddWaiter
AddWaiter(t, name) ==
    /\ pc[t] = "idle"
    /\ Find(name) # None
    /\ ~waiter.Client /\ waiter.Calls = 0
    /\ waiter' = [NoWaiter EXCEPT !.Client = TRUE, !.On = {Find(name)}]
    /\ UNCHANGED <<ct, Containers, ContainerIdMap, ContainersMutex, pc, LockedContainer,
                   WeakContainers, local, EventQueue, holds, lastEdges, lastOp, crashed, client, taskEnv, exitInfo>>

\* TContainer::NotifyWaiters and TContainerWaiter::WakeupWaiter for the
\* calls an operation made: the callback of a pending waiter is called for
\* a container of its list
Deliver(W) ==
    LET calls == {w \in W.wake : w.ct \in waiter.On}
    IN  IF waiter.Client /\ calls # {}
        THEN \E w \in calls :
                waiter' = [waiter EXCEPT !.Client = FALSE, !.Calls = @ + 1, !.Who = w.ct,
                                         !.State = w.State,
                                         !.RunningChildren = w.RunningChildren]
        ELSE UNCHANGED waiter

NotifyUnchanged ==
    UNCHANGED <<ContainersMutex, LockedContainer, WeakContainers, holds, crashed, client, taskEnv, exitInfo,
                pc, local>>

\* what a request can make of the daemon; no step of Start fails
RequestResults(o, op) ==
    IF op = "Start" THEN {Start(World, o, NoFailure)}
    ELSE IF op = "Stop" THEN {Stop(World, o, 0, tk) : tk \in TermOracle(ct, Subtree(ct, o))}
    ELSE IF op = "Pause" THEN {Pause(World, o)}
    ELSE IF op = "Resume" THEN {Resume(World, o)}
    ELSE {Destroy(o, DestroyBegin(World, o, tk)) : tk \in TermOracle(ct, Subtree(ct, o))}

\* a request of the client
RequestOp(t, name, op) ==
    /\ pc[t] = "idle"
    /\ Find(name) # None
    /\ \E r \in RequestResults(Find(name), op) :
          /\ r.error # "Loop"
          /\ Commit(r.W)
          /\ Deliver(r.W)
          /\ lastOp' = Op(t, op, name, r.error)
    /\ NotifyUnchanged

\* the main task of o exits and the worker handles the Exit event
ExitOp(o) ==
    /\ ct[o].Tasks >= 1 /\ MainTaskAlive(o) /\ ~IsFrozen(ct, o)
    /\ Find(ct[o].Name) = o
    /\ \E tk \in TermOracle(ct, Subtree(ct, o)) :
          LET r == Exit([World EXCEPT !.H[o].Tasks = @ - 1], o, tk)
          IN  /\ Commit(r)
              /\ Deliver(r)
              /\ lastOp' = Op(Worker, "Exit", ct[o].Name, "Success")
    /\ NotifyUnchanged

NotifyOps == {"Start", "Stop", "Pause", "Resume", "Destroy"}

NextNotify ==
    \/ \E name \in Requested : AddWaiter("t1", name)
    \/ \E name \in Requested, op \in NotifyOps : RequestOp("t1", name, op)
    \/ \E o \in Objs : ExitOp(o)

SpecNotify == InitNotify /\ [][NextNotify]_vars

\* a container of the waiter's list is destroyed and the waiter is pending
PendingOnDestroyed ==
    /\ waiter.Client
    /\ \E o \in waiter.On : ct[o].State = "Destroyed"

\* C29: a waiter registered on a container that is destroyed is woken, be
\* it registered when the container was Stopped already: when Destroy has
\* returned no waiter is left pending on the destroyed container.  (A
\* destroyed container calls NotifyWaiters no more, so a waiter that is
\* pending then is pending for ever.)
C29_DestroyWakesWaiters == ~PendingOnDestroyed

\* nothing wakes a waiter that is pending on a destroyed container
PendingStays == [][PendingOnDestroyed => PendingOnDestroyed']_vars

\* what the waiter waits for
TerminalForWaiter(state, running) ==
    state \in {"Dead", "Stopped"} \/ (state = "Meta" /\ running = 0)

\* C30: when the callback of a waiter is called with container c, c is Dead
\* or Stopped, or c is Meta and its counter of running descendants is zero
C30_WokenOnlyAtTerminalState ==
    waiter.Calls > 0 => TerminalForWaiter(waiter.State, waiter.RunningChildren)

---------------------------------------------------------------------------
(* One run of the spawn protocol: the daemon, the broker, the task and the *)
(* application run in any order, a step of configuration fails or not, and *)
(* the broker, the task or the application is killed at any point.         *)

SpawnUnchanged ==
    UNCHANGED <<ct, Containers, ContainerIdMap, ContainersMutex, pc, LockedContainer,
                WeakContainers, local, EventQueue, holds, lastEdges, lastOp, crashed,
                waiter, client, exitInfo>>

\* TTaskEnv::Start up to the fork
SpawnStart(f) ==
    /\ taskEnv = NoTaskEnv
    /\ taskEnv' = [NoTaskEnv EXCEPT !.Isolate = f.Isolate, !.TripleFork = f.TripleFork,
                                    !.QuadroFork = f.QuadroFork,
                                    !.pc["D"] = "RecvPid", !.pc["B"] = "setup"]
    /\ SpawnUnchanged

DaemonStep ==
    /\ \E n \in DaemonNext(taskEnv) : taskEnv' = n
    /\ SpawnUnchanged

BrokerStep ==
    /\ \E n \in BrokerNext(taskEnv) : taskEnv' = n
    /\ SpawnUnchanged

ChildStep(p) ==
    /\ \E n \in ChildNext(taskEnv, p) : taskEnv' = n
    /\ SpawnUnchanged

Dies(p) ==
    /\ taskEnv.pc[p] \notin {"none", "exited", "dead", "execd", "portoinit"}
    /\ taskEnv' = Killed(taskEnv, p)
    /\ SpawnUnchanged

NextSpawn ==
    \/ \E f \in ForkFlags : SpawnStart(f)
    \/ DaemonStep
    \/ BrokerStep
    \/ \E p \in {"T", "A"} : ChildStep(p)
    \/ \E p \in Procs : Dies(p)

SpecSpawn == Init /\ [][NextSpawn]_vars

\* C25: the command is exec'd only after the daemon sent its wake-up, which
\* it sends only after it read both pids; and when Start returns an error
\* the command has not been exec'd, whatever the order of the steps and
\* wherever the broker or the task dies
C25_ExecOnlyAfterWakeup ==
    /\ taskEnv.execd => taskEnv.woke
    /\ taskEnv.woke => Len(taskEnv.got) = 2
    /\ taskEnv.error = "Unknown" => ~taskEnv.execd

\* the first half alone: the command is exec'd only after the wake-up, and
\* the wake-up follows the two pids
ExecAfterWakeup ==
    /\ taskEnv.execd => taskEnv.woke
    /\ taskEnv.woke => Len(taskEnv.got) = PidsBeforeWakeup

\* the pid frames written before position i
WrittenBefore(i) == {taskEnv.sent[j].what : j \in 1..(i - 1)}

\* C26: in a run in which Start returns Success the daemon has read exactly
\* two pid frames before its wake-up, WPid and then VPid, the VPid being
\* the forwarded pid of the application under QuadroFork; and no VPid is
\* written before the WPid
C26_TwoPidsInOrder ==
    /\ taskEnv.woke => Len(taskEnv.got) = 2
    /\ taskEnv.error = "Success" =>
          /\ taskEnv.woke
          /\ taskEnv.got[1] = PidFrame("WPid", "B")
          /\ taskEnv.got[2].what = "VPid"
          /\ taskEnv.QuadroFork => taskEnv.got[2].from = "A"
    /\ \A i \in 1..Len(taskEnv.sent) :
          taskEnv.sent[i].what = "VPid" => "WPid" \in WrittenBefore(i)

\* Start returned Success under QuadroFork and TripleFork: the application
\* runs the command
C26_Witness ==
    /\ taskEnv.error = "Success" /\ taskEnv.QuadroFork /\ taskEnv.TripleFork
    /\ taskEnv.execd /\ taskEnv.pc["A"] = "execd"
    /\ Len(taskEnv.got) = 2


\* C32: when a participant has aborted or was killed, Start ends with an
\* error and every process of the construction is gone; the daemon finds a
\* pid frame whenever it reads a pid and never a pid frame when it reads
\* the error
C32_FailureEndsInError ==
    /\ taskEnv.pc["D"] = "RecvPid" /\ taskEnv.MasterSock # <<>>
          => Head(taskEnv.MasterSock).kind = "Pid"
    /\ taskEnv.pc["D"] = "RecvError" /\ taskEnv.MasterSock # <<>>
          => Head(taskEnv.MasterSock).kind = "Error"
    /\ taskEnv.pc["D"] = "done" /\ taskEnv.failed
          => /\ taskEnv.error = "Unknown"
             /\ \A p \in Procs : taskEnv.pc[p] \in {"none", "exited", "dead"}

\* the same without the frame read in place of the error: a participant
\* that failed makes Start fail
FailureFailsStart ==
    taskEnv.pc["D"] = "done" /\ taskEnv.failed => taskEnv.error = "Unknown"

\* the frames alone
FramesAsExpected ==
    /\ taskEnv.pc["D"] = "RecvPid" /\ taskEnv.MasterSock # <<>>
          => Head(taskEnv.MasterSock).kind = "Pid"
    /\ taskEnv.pc["D"] = "RecvError" /\ taskEnv.MasterSock # <<>>
          => Head(taskEnv.MasterSock).kind = "Error"

---------------------------------------------------------------------------
(* The tree of containers under every operation: "a" is a meta container   *)
(* or runs a command, "a/b" runs a command, both respawn; a client starts, *)
(* stops, pauses, resumes and destroys them, the tasks exit or are killed  *)
(* by the OOM killer and the worker handles every event to its end.        *)

TreeWorld(cmdA) ==
    LET W1 == Create(StartWorld, NameA, FALSE, FALSE).W
        W2 == SetProperty(W1, FindIn(W1.reg, NameA), "command", cmdA).W
        W3 == Create(W2, NameAB, FALSE, FALSE).W
        W4 == SetProperty(W3, FindIn(W3.reg, NameAB), "command", TRUE).W
        W5 == SetRespawn(W4, FindIn(W4.reg, NameA), MaxRespawnCount)
    IN  SetRespawn(W5, FindIn(W5.reg, NameAB), MaxRespawnCount)

InitTree ==
    /\ InitCommon
    /\ \E cmdA \in BOOLEAN :
          LET W == TreeWorld(cmdA)
          IN  ct = W.H /\ Containers = W.reg /\ ContainerIdMap = W.ids

NextTree ==
    \/ \E t \in {"t1"}, name \in {NameA, NameAB} :
          \/ StartOp(t, name)
          \/ StopOp(t, name)
          \/ PauseOp(t, name)
          \/ ResumeOp(t, name)
          \/ DestroyOp(t, name)
    \/ \E o \in Objs : TaskExits(o) \/ OomKill(o)
    \/ HandleRespawnEvent

SpecTree == InitTree /\ [][NextTree]_vars

Live(o) == ct[o].State \in {"Running", "Meta", "Paused"}

---------------------------------------------------------------------------
(* The count of the respawns *)

\* the worker handles the Respawn event e in this step and MayRespawn holds
RespawnHandled(e) ==
    /\ e.Type = "Respawn"
    /\ e \in EventQueue /\ e \notin EventQueue'
    /\ MayRespawn(ct, e.Container)

\* C33: a handled Respawn event that passes MayRespawn adds exactly one to
\* RespawnCount of its container, whether Stop and Start succeed or fail
C33_RespawnIsCounted ==
    [][\A e \in EventQueue :
          RespawnHandled(e) =>
              ct'[e.Container].RespawnCount = ct[e.Container].RespawnCount + 1]_vars

\* a handled Respawn event whose Start succeeds adds one to RespawnCount
RespawnStartedIsCounted ==
    [][\A e \in EventQueue :
          (RespawnHandled(e) /\ ct'[e.Container].State # "Dead") =>
              ct'[e.Container].RespawnCount = ct[e.Container].RespawnCount + 1]_vars

---------------------------------------------------------------------------
(* ExitStatus and OomKilled: "a" and "a/b" run a command; a client starts  *)
(* and stops them, their tasks exit, the kernel signals OOM and the worker *)
(* handles every event to its end.                                         *)

SIGKILL == 9
\* the exit statuses of a task
ExitStatuses == {0, 1}

\* TContainer::Reap in the loop of TContainer::Exit: OomKilled of the
\* containers that are reaped
RECURSIVE OomKilledEach(_, _, _, _, _)
OomKilledEach(X, W, list, tk, oomKilled) ==
    IF list = <<>> THEN X
    ELSE IF W.H[Head(list)].State \notin {"Stopped", "Dead"}
         THEN OomKilledEach(IF oomKilled THEN [X EXCEPT ![Head(list)].OomKilled = TRUE] ELSE X,
                            Reap(W, Head(list), tk), Tail(list), tk, oomKilled)
         ELSE OomKilledEach(X, W, Tail(list), tk, oomKilled)

\* the test of Exit that guards the store of the status
ExitIgnored(H, o) == H[o].State = "Stopped"

\* TContainer::Exit: ExitStatus and OomKilled it leaves
ExitInfoOfExit(X, W, o, tk, status, oomKilled) ==
    IF ExitIgnored(W.H, o) THEN X
    ELSE OomKilledEach([X EXCEPT ![o].ExitStatus = status], W, Subtree(W.H, o), tk, oomKilled)

\* TContainer::StopOne: ExitStatus and OomKilled of the containers that
\* Stop has stopped
ExitInfoOfStop(X, W, W2) ==
    [x \in Objs |->
        IF W.H[x].State # "Stopped" /\ W2.H[x].State = "Stopped"
        THEN [ExitStatus |-> 0, OomKilled |-> FALSE] ELSE X[x]]

OomUnchanged ==
    UNCHANGED <<ContainersMutex, pc, LockedContainer, WeakContainers, local, holds, lastOp,
                crashed, waiter, client, taskEnv>>

\* events that may wait in the queue of these runs
MaxOomEvents == 2

\* the main task of o exits: SIGCHLD, and an Exit event is queued
OomTaskExits(o) ==
    /\ ct[o].Tasks >= 1
    /\ MainTaskAlive(o)
    /\ ~IsFrozen(ct, o)
    /\ Cardinality(EventQueue) < MaxOomEvents
    /\ ct' = [ct EXCEPT ![o].Tasks = @ - 1]
    /\ EventQueue' = EventQueue \cup {ExitEvent(ct[o].WaitPid)}
    /\ lastEdges' = {}
    /\ UNCHANGED <<Containers, ContainerIdMap, exitInfo>>
    /\ OomUnchanged

\* the kernel signals OOM on the event fd of o: an OOM event is queued
OomSignal(o) ==
    /\ ct[o].State # "Free"
    /\ MayReceiveOom(ct, o)
    /\ OomEvent(o) \notin EventQueue
    /\ Cardinality(EventQueue) < MaxOomEvents
    /\ EventQueue' = EventQueue \cup {OomEvent(o)}
    /\ lastEdges' = {}
    /\ UNCHANGED <<ct, Containers, ContainerIdMap, exitInfo>>
    /\ OomUnchanged

OomStop(name) ==
    /\ Find(name) # None
    /\ \E timeout \in {0, 1}, tk \in TermOracle(ct, Subtree(ct, Find(name))) :
          \E r \in {Stop(World, Find(name), timeout, tk)} :
             /\ Commit(r.W)
             /\ exitInfo' = ExitInfoOfStop(exitInfo, World, r.W)
    /\ OomUnchanged

\* case EEventType::Exit with the status of the task and what the OOM event
\* fd and memory.failcnt show
OomExitEvent(e) ==
    /\ e.Type = "Exit"
    /\ IF ExitTarget(e.Pid) = None
       THEN Commit([World EXCEPT !.ev = @ \ {e}]) /\ UNCHANGED exitInfo
       ELSE \E tk \in TermOracle(ct, Subtree(ct, ExitTarget(e.Pid))),
               status \in ExitStatuses, oomKilled \in BOOLEAN :
               /\ Commit(Exit([World EXCEPT !.ev = @ \ {e}], ExitTarget(e.Pid), tk))
               /\ exitInfo' = ExitInfoOfExit(exitInfo, World, ExitTarget(e.Pid), tk,
                                             status, oomKilled)
    /\ OomUnchanged

\* case EEventType::OOM: Exit(SIGKILL, true)
OomOomEvent(e) ==
    /\ e.Type = "OOM"
    /\ \E tk \in TermOracle(ct, Subtree(ct, e.Container)) :
          /\ Commit(Exit([World EXCEPT !.ev = @ \ {e}], e.Container, tk))
          /\ exitInfo' = ExitInfoOfExit(exitInfo, World, e.Container, tk, SIGKILL, TRUE)
    /\ OomUnchanged

NextOom ==
    \/ \E name \in {NameA, NameAB} : StartOp("t1", name) \/ OomStop(name)
    \/ \E o \in Objs : OomTaskExits(o) \/ OomSignal(o)
    \/ \E e \in EventQueue : OomExitEvent(e)
    \/ \E e \in EventQueue : OomOomEvent(e)

SpecOom == InitExit /\ [][NextOom]_vars

\* C39: ExitStatus and OomKilled of a container that is Dead and stays Dead
\* do not change, whatever event is handled
C39_DeadKeepsExitStatus ==
    [][\A o \in Objs :
          (ct[o].State = "Dead" /\ ct'[o].State = "Dead") => exitInfo'[o] = exitInfo[o]]_vars

\* OomKilled alone
DeadKeepsOomKilled ==
    [][\A o \in Objs :
          (ct[o].State = "Dead" /\ ct'[o].State = "Dead")
              => exitInfo'[o].OomKilled = exitInfo[o].OomKilled]_vars

---------------------------------------------------------------------------
(* The handler of RotateLogs and the registry mutex *)

\* the worker is in ContainersMutex.lock() of Unlock and holds the mutex
RelocksMutex == pc[Worker] = "deadlock" /\ ContainersMutex = Worker

\* C35: the worker that handles a RotateLogs event never calls
\* ContainersMutex.lock() while it holds the mutex, so the handler ends and
\* the mutex is released
C35_RotateLogsReleasesMutex == ~RelocksMutex

---------------------------------------------------------------------------
(* The cases of TContainer::Event *)

\* the worker is in the loop of case RotateLogs that it entered from case
\* DestroyWeak, after lock.unlock()
RotatesAfterDestroyWeak == pc[Worker] \in {"rl_racy", "rl_take", "rl_unlock"}

\* C34: the handling of a DestroyWeak event does not go on into the log
\* rotation: the worker never runs the loop of RotateLogs without the
\* registry mutex, and it holds a read lock only while it handles a
\* RotateLogs event
C34_EventsAreIndependent ==
    /\ ~RotatesAfterDestroyWeak
    /\ \A h \in HoldOf(Worker) : h.shared => pc[Worker] \in {"rl_wait", "deadlock"}

---------------------------------------------------------------------------
(* The end of Destroy *)

\* a thread is in the loop of Destroy over the children after a pass in
\* which the Destroy of the first child returned an error
DestroyLoops == \E t \in Threads : pc[t] = "destroy"

\* C38: the loop of Destroy over the children ends: no pass of it leaves
\* the first child in Children
C38_DestroyTerminates == ~DestroyLoops

---------------------------------------------------------------------------
(* The identity of a session after a failed identification *)

\* a request whose identification fails leaves the recorded identity alone
FailureKeepsIdentity ==
    [][(RequestStep /\ client'.error # "Success")
          => Identity(client') = Identity(client)]_vars

\* the request after a failed one is served on the recorded identity: the
\* peer is the one of the failed request, whose pid, uid and gid the failed
\* identification has recorded
ServedOnFailedIdentity ==
    /\ RequestStep
    /\ client.op = "Request" /\ client.error # "Success"
    /\ client'.error = "Success"
    /\ Unchanged(client'.peer)
    /\ client'.peer = client.peer

\* C37: when IdentifyClient fails on a request the recorded Pid, TaskCred,
\* AccessLevel, Cred and ClientContainer are those of before the call, and
\* the next request does not pass the test of the unchanged identity on
\* what the failed call has written
C37_FailedIdentifyLeavesIdentity ==
    [][/\ (RequestStep /\ client'.error # "Success")
             => Identity(client') = Identity(client)
       /\ ~ServedOnFailedIdentity]_vars

\* the second half alone
NotServedOnFailedIdentity == [][~ServedOnFailedIdentity]_vars

---------------------------------------------------------------------------
(* The handler of an Exit event against a client that holds the write lock *)
(* of the container: "a" and "a/b" run a command, a client takes a write   *)
(* lock and stops and starts the container under it, the tasks exit and    *)
(* the worker handles the Exit events: ct->Lock(lock), lock.unlock(),      *)
(* ct->Exit(), ct->Unlock(), AckExitStatus().  The pid of an exit is       *)
(* acknowledged at the end of the handler; until then the event stays in   *)
(* the queue of the model and the pid is not handed out to a new task.     *)

\* thread t holds the write lock on the container called name
HoldsWrite(t, name) ==
    /\ Find(name) # None
    /\ LockedContainer[t] = Find(name)
    /\ Hold(t, Find(name), FALSE) \in holds

ReapUnchanged ==
    UNCHANGED <<ContainersMutex, pc, LockedContainer, WeakContainers, local, holds, lastOp,
                crashed, waiter, client, taskEnv>>

\* the Start request: TContainer::Start under the write lock of the session
StartLocked(t, name) ==
    /\ pc[t] = "idle"
    /\ HoldsWrite(t, name)
    /\ \E fp \in StartOracle(ct, Find(name)) :
          \E r \in {Start(World, Find(name), fp)} : Commit(r.W)
    /\ UNCHANGED exitInfo
    /\ ReapUnchanged

\* the Stop request: TContainer::Stop under the write lock of the session
StopLocked(t, name) ==
    /\ pc[t] = "idle"
    /\ HoldsWrite(t, name)
    /\ \E timeout \in {0, 1}, tk \in TermOracle(ct, Subtree(ct, Find(name))) :
          \E r \in {Stop(World, Find(name), timeout, tk)} :
             /\ Commit(r.W)
             /\ exitInfo' = ExitInfoOfStop(exitInfo, World, r.W)
    /\ ReapUnchanged

\* the main task of o exits: SIGCHLD, and an Exit event is queued
ReapTaskExits(o) ==
    /\ ct[o].Tasks >= 1
    /\ MainTaskAlive(o)
    /\ ~IsFrozen(ct, o)
    /\ Cardinality(EventQueue) < MaxEvents
    /\ ct' = [ct EXCEPT ![o].Tasks = @ - 1]
    /\ EventQueue' = EventQueue \cup {ExitEvent(ct[o].WaitPid)}
    /\ lastEdges' = {}
    /\ UNCHANGED <<Containers, ContainerIdMap, exitInfo>>
    /\ ReapUnchanged

\* case Exit, ct->Lock(lock) for the container o found for the pid: one pass
\* of the loop of Lock, and lock.unlock() once the lock is taken
ExitLock(o, pid) ==
    IF ct[o].State = "Destroyed"
    THEN \* Lock fails: AckExitStatus
         /\ pc' = [pc EXCEPT ![Worker] = "idle"]
         /\ local' = [local EXCEPT ![Worker] = NoLocal]
         /\ EventQueue' = EventQueue \ {ExitEvent(pid)}
         /\ UNCHANGED <<ct, holds>>
    ELSE IF LockBusy(ct, o, FALSE)
    THEN \* ContainersCV.wait(lock)
         /\ pc' = [pc EXCEPT ![Worker] = "ex_wait"]
         /\ local' = [local EXCEPT ![Worker].ct = o, ![Worker].iter = pid]
         /\ UNCHANGED <<ct, holds, EventQueue>>
    ELSE /\ pc' = [pc EXCEPT ![Worker] = "ex_exit"]
         /\ local' = [local EXCEPT ![Worker].ct = o, ![Worker].iter = pid]
         /\ ct' = LockTake(ct, o, FALSE)
         /\ holds' = holds \cup {Hold(Worker, o, FALSE)}
         /\ UNCHANGED EventQueue

\* the worker takes an Exit event: the loop over Containers under the mutex
ExitEventTaken ==
    /\ pc[Worker] = "idle"
    /\ MutexFree
    /\ \E e \in EventQueue :
          /\ e.Type = "Exit"
          /\ IF ExitTarget(e.Pid) = None
             THEN \* no container waits for the pid: AckExitStatus
                  /\ EventQueue' = EventQueue \ {e}
                  /\ lastOp' = Op(Worker, "Exit", <<>>, "NoTarget")
                  /\ UNCHANGED <<ct, holds, pc, local>>
             ELSE /\ ExitLock(ExitTarget(e.Pid), e.Pid)
                  /\ lastOp' = Op(Worker, "Lock", ct[ExitTarget(e.Pid)].Name,
                                  IF LockBusy(ct, ExitTarget(e.Pid), FALSE)
                                  THEN "Waiting" ELSE "Success")
    /\ UNCHANGED <<Containers, ContainerIdMap, ContainersMutex, LockedContainer, WeakContainers,
                   lastEdges, crashed, waiter, client, taskEnv, exitInfo>>

\* ContainersCV.wait returned in ct->Lock(lock) of case Exit: the loop of
\* Lock runs again; the loop over Containers does not
ExitWake ==
    /\ pc[Worker] = "ex_wait"
    /\ MutexFree
    /\ ~LockBusy(ct, local[Worker].ct, FALSE) \/ ct[local[Worker].ct].State = "Destroyed"
    /\ ExitLock(local[Worker].ct, local[Worker].iter)
    /\ lastOp' = Op(Worker, "Lock", ct[local[Worker].ct].Name, "Success")
    /\ UNCHANGED <<Containers, ContainerIdMap, ContainersMutex, LockedContainer, WeakContainers,
                   lastEdges, crashed, waiter, client, taskEnv, exitInfo>>

\* ct->Exit(event.Exit.Status, false) under the write lock
ExitRun ==
    /\ pc[Worker] = "ex_exit"
    /\ \E tk \in TermOracle(ct, Subtree(ct, local[Worker].ct)), status \in ExitStatuses :
          /\ Commit(Exit(World, local[Worker].ct, tk))
          /\ exitInfo' = ExitInfoOfExit(exitInfo, World, local[Worker].ct, tk, status, FALSE)
    /\ pc' = [pc EXCEPT ![Worker] = "ex_unlock"]
    /\ lastOp' = Op(Worker, "Exit", ct[local[Worker].ct].Name, "Success")
    /\ UNCHANGED <<ContainersMutex, LockedContainer, WeakContainers, local, holds, crashed,
                   waiter, client, taskEnv>>

\* ct->Unlock() and AckExitStatus(event.Exit.Pid)
ExitUnlock ==
    /\ pc[Worker] = "ex_unlock"
    /\ MutexFree
    /\ UnlockAsserts(ct, local[Worker].ct)
    /\ ct' = Unlock(ct, local[Worker].ct)
    /\ holds' = holds \ HoldOf(Worker)
    /\ EventQueue' = EventQueue \ {ExitEvent(local[Worker].iter)}
    /\ pc' = [pc EXCEPT ![Worker] = "idle"]
    /\ local' = [local EXCEPT ![Worker] = NoLocal]
    /\ lastOp' = Op(Worker, "Unlock", ct[local[Worker].ct].Name, "Success")
    /\ UNCHANGED <<Containers, ContainerIdMap, ContainersMutex, LockedContainer, WeakContainers,
                   lastEdges, crashed, waiter, client, taskEnv, exitInfo>>

NextReap ==
    \/ \E name \in Requested : WriteContainer("t1", name)
    \/ LockWake("t1")
    \/ FinishRequest("t1")
    \/ \E name \in Requested : StartLocked("t1", name)
    \/ \E name \in Requested : StopLocked("t1", name)
    \/ \E o \in Objs : ReapTaskExits(o)
    \/ ExitEventTaken
    \/ ExitWake
    \/ ExitRun
    \/ ExitUnlock

SpecReap == InitLock /\ [][NextReap]_vars

\* the worker holds the write lock on the container it found for the pid of
\* the event, and the container waits for another task by now
WaitsForOtherTask ==
    /\ pc[Worker] = "ex_exit"
    /\ ct[local[Worker].ct].WaitPid # local[Worker].iter

\* C36: when the handler of the Exit event of pid P has the write lock and P
\* is not the wait-task pid of the container any more, Exit leaves the
\* container as it is: its state, its exit status, its pids and its tasks
C36_ExitReapsOnlyItsPid ==
    [][(WaitsForOtherTask /\ pc'[Worker] # "ex_exit") =>
          /\ ct'[local[Worker].ct] = ct[local[Worker].ct]
          /\ exitInfo'[local[Worker].ct] = exitInfo[local[Worker].ct]]_vars


---------------------------------------------------------------------------
(* Two sessions that take write locks and start and stop containers under  *)
(* them: "a", "a/b" and "c" have a command, "a" and "a/b" run.             *)

SerialWorld ==
    SetProperty([LockWorld EXCEPT !.H[FindIn(LockWorld.reg, NameC)].IsWeak = FALSE],
                FindIn(LockWorld.reg, NameC), "command", TRUE).W

InitSerial ==
    /\ ct = SerialWorld.H
    /\ Containers = SerialWorld.reg
    /\ ContainerIdMap = SerialWorld.ids
    /\ ContainersMutex = NoThread
    /\ pc = [t \in Threads |-> "idle"]
    /\ LockedContainer = [t \in Clients |-> None]
    /\ WeakContainers = [t \in Clients |-> {}]
    /\ local = [t \in Threads |-> NoLocal]
    /\ EventQueue = {}
    /\ holds = {}
    /\ lastEdges = {}
    /\ lastOp = NoOp
    /\ crashed = FALSE
    /\ waiter = NoWaiter
    /\ taskEnv = NoTaskEnv
    /\ exitInfo = NoExitInfo
    /\ client = NoClient

NextSerial ==
    \/ \E t \in Clients, name \in Names \ {ROOT_CONTAINER} : WriteContainer(t, name)
    \/ \E t \in Clients : LockWake(t)
    \/ \E t \in Clients : FinishRequest(t)
    \/ \E t \in Clients, name \in Names \ {ROOT_CONTAINER} : StartLocked(t, name)
    \/ \E t \in Clients, name \in Names \ {ROOT_CONTAINER} : StopLocked(t, name)

SpecSerial == InitSerial /\ [][NextSerial]_vars

\* a thread holds the write lock on o or on an ancestor of o
WriteLocked(o) ==
    \E h \in holds : ~h.shared /\ (h.ct = o \/ h.ct \in AncestorSet(ct, o))

\* the step changes the state or the runtime pids of o
TransitionOf(o) ==
    \/ ct'[o].State # ct[o].State
    \/ ct'[o].TaskPid # ct[o].TaskPid
    \/ ct'[o].WaitPid # ct[o].WaitPid

\* the step changes RunningChildren of o
CounterChangeOf(o) == ct'[o].RunningChildren # ct[o].RunningChildren

\* C31: every change of State, of the runtime pids or of RunningChildren of
\* a container is made while a thread holds the write lock on that
\* container or on one of its ancestors
C31_ChangesUnderWriteLock ==
    [][\A o \in Objs : (TransitionOf(o) \/ CounterChangeOf(o)) => WriteLocked(o)]_vars

\* the state and the pids alone: the automatic start of the parent
TransitionsUnderWriteLock ==
    [][\A o \in Objs : TransitionOf(o) => WriteLocked(o)]_vars

\* the counters alone
CountersUnderWriteLock ==
    [][\A o \in Objs : CounterChangeOf(o) => WriteLocked(o)]_vars

\* the containers a Start or Stop under the write lock on o writes to: the
\* subtree of o, and the ancestors of o for the counters
Footprint(o) ==
    {x \in Objs : x = o \/ (ct[x].State # "Free" /\ IsChildOf(ct, x, o))} \cup AncestorSet(ct, o)

\* no two threads hold write locks under which they write to one container
DisjointFootprints ==
    \A h1, h2 \in holds :
        (h1.t # h2.t /\ ~h1.shared /\ ~h2.shared) => Footprint(h1.ct) \cap Footprint(h2.ct) = {}

=========================================================================
